---- MODULE Spec2Model ----
(***************************************************************************)
(* Model of genealogy_assistant.core.gedcom: the GEDCOM line tokenizer,    *)
(* the record assembler, the record store of GedcomManager with its        *)
(* identifier counters, the validator, the mutators and get_person.        *)
(*                                                                         *)
(* Representation.  Python strings are TLA+ strings, read character by     *)
(* character with Head/Tail/SubSeq.  None and "" are both falsy and the    *)
(* code only tests these values for truth, so an absent string (xref,      *)
(* record id, gedcom_id, husband_id, ...) is "", and an absent integer     *)
(* field of a date is 0.  Record objects live in heap (object identity is  *)
(* the index); a dict is the sequence of its <<key, object>> items in      *)
(* insertion order; an absent object reference is 0.                       *)
(***************************************************************************)
EXTENDS Integers, Sequences, FiniteSets, TLC

VARIABLES heap, records, header, trailer, individuals, families, sources,
          repositories, errors, warnings, next_indi_id, next_fam_id,
          next_sour_id, next_repo_id, ret, calls, files, pc, out

store == <<heap, records, header, trailer, individuals, families, sources,
           repositories, next_indi_id, next_fam_id, next_sour_id,
           next_repo_id>>

\* the callers of validate() that run at the same time: where each one is
\* in validate() and what it returned
threads == <<pc, out>>

vars == <<heap, records, header, trailer, individuals, families, sources,
          repositories, errors, warnings, next_indi_id, next_fam_id,
          next_sour_id, next_repo_id, ret, calls, files, pc, out>>

(***************************************************************************)
(* Bounds of the exploration.                                              *)
(***************************************************************************)
\* the number of calls that change the manager (load, the mutators, the
\* allocator, validate) in one run; calls logs them.  The queries are not
\* counted.
MaxCalls == 2

\* the number of calls in a run that builds a store in memory (add_person,
\* add_family, add_source) and ends with validate()
MaxMutations == 3

(***************************************************************************)
(* Characters and strings.                                                 *)
(***************************************************************************)
Digits == <<"0", "1", "2", "3", "4", "5", "6", "7", "8", "9">>

IsDigit(c) == \E i \in 1..10 : Digits[i] = c

DigitVal(c) == (CHOOSE i \in 1..10 : Digits[i] = c) - 1

IsSpace(c) == c \in {" ", "\t"}

RECURSIVE LStrip(_)
LStrip(s) == IF s # "" /\ IsSpace(Head(s)) THEN LStrip(Tail(s)) ELSE s

RECURSIVE RStrip(_)
RStrip(s) ==
    IF s # "" /\ IsSpace(SubSeq(s, Len(s), Len(s)))
    THEN RStrip(SubSeq(s, 1, Len(s) - 1))
    ELSE s

Strip(s) == RStrip(LStrip(s))

\* length of the longest prefix of s made of digits
RECURSIVE DigitRun(_)
DigitRun(s) == IF s # "" /\ IsDigit(Head(s)) THEN 1 + DigitRun(Tail(s)) ELSE 0

\* length of the longest prefix of s made of whitespace
RECURSIVE SpaceRun(_)
SpaceRun(s) == IF s # "" /\ IsSpace(Head(s)) THEN 1 + SpaceRun(Tail(s)) ELSE 0

\* length of the longest prefix of s free of whitespace
RECURSIVE WordRun(_)
WordRun(s) == IF s # "" /\ ~IsSpace(Head(s)) THEN 1 + WordRun(Tail(s)) ELSE 0

\* length of the longest prefix of s free of the character c
RECURSIVE RunUntil(_, _)
RunUntil(s, c) == IF s # "" /\ Head(s) # c THEN 1 + RunUntil(Tail(s), c) ELSE 0

Drop(s, n) == SubSeq(s, n + 1, Len(s))

Take(s, n) == SubSeq(s, 1, n)

\* int(s) for a string of decimal digits
RECURSIVE StrToInt(_)
StrToInt(s) ==
    IF s = "" THEN 0
    ELSE 10 * StrToInt(Take(s, Len(s) - 1)) + DigitVal(SubSeq(s, Len(s), Len(s)))

\* str(n) for a natural number
RECURSIVE IntToStr(_)
IntToStr(n) ==
    IF n < 10 THEN Digits[n + 1]
    ELSE IntToStr(n \div 10) \o Digits[(n % 10) + 1]

\* sub in s
Contains(s, sub) ==
    \E i \in 1..(Len(s) + 1) :
        i + Len(sub) - 1 <= Len(s) /\ SubSeq(s, i, i + Len(sub) - 1) = sub

(***************************************************************************)
(* GedcomLine                                                              *)
(***************************************************************************)
GedcomLine(level, tag, value, xref) ==
    [level |-> level, tag |-> tag, value |-> value, xref |-> xref]

NoLine == [ok |-> FALSE]

\* groups 3 and 4 of the pattern, matched on a text that starts with a
\* character that is not whitespace: (\S+)(?:\s+(.*))?$
TagAndValue(r) ==
    LET t == WordRun(r)
        rest == Drop(r, t)
    IN  [tag |-> Take(r, t), value |-> Drop(rest, SpaceRun(rest))]

\* GedcomLine.parse: ^(\d+)\s+(?:(@[^@]+@)\s+)?(\S+)(?:\s+(.*))?$
GedcomLineParse(text) ==
    LET line == Strip(text)
        d == DigitRun(line)
        afterLevel == Drop(line, d)
        w == SpaceRun(afterLevel)
        r == Drop(afterLevel, w)
        \* the optional xref group: "@", one or more characters other than
        \* "@", "@", then whitespace, with a tag left to match after it
        inner == IF r # "" /\ Head(r) = "@" THEN RunUntil(Tail(r), "@") ELSE 0
        afterXref == Drop(r, inner + 2)
        hasXref == /\ r # "" /\ Head(r) = "@"
                   /\ inner >= 1
                   /\ inner + 2 <= Len(r)
                   /\ SpaceRun(afterXref) >= 1
                   /\ Drop(afterXref, SpaceRun(afterXref)) # ""
        tv == IF hasXref
              THEN TagAndValue(Drop(afterXref, SpaceRun(afterXref)))
              ELSE TagAndValue(r)
    IN  IF line = "" \/ d = 0 \/ w = 0 \/ r = ""
        THEN NoLine
        ELSE [ok |-> TRUE,
              line |-> GedcomLine(StrToInt(Take(line, d)), tv.tag, tv.value,
                                  IF hasXref THEN Take(r, inner + 2) ELSE "")]

\* GedcomLine.to_string without its "parts.append(self.value)"
to_string_no_value(line) ==
    IntToStr(line.level)
    \o (IF line.xref # "" THEN " " \o line.xref ELSE "")
    \o " " \o line.tag

\* GedcomLine.to_string: the level, the xref when there is one, the tag, the
\* value when there is one, joined by single spaces
to_string(line) ==
    IntToStr(line.level)
    \o (IF line.xref # "" THEN " " \o line.xref ELSE "")
    \o " " \o line.tag
    \o (IF line.value # "" THEN " " \o line.value ELSE "")

(***************************************************************************)
(* GedcomRecord                                                            *)
(***************************************************************************)
GedcomRecord(id, tag, lines) == [id |-> id, tag |-> tag, lines |-> lines]

\* the loop of GedcomRecord.get_value from line i on; a path is a sequence
\* of tags, the result <<>> for None and <<value>> otherwise.  path[level - 1]
\* of the code is path[level] here, and for level 0 it is path[-1], the last
\* tag.
RECURSIVE ValueFrom(_, _, _, _, _)
ValueFrom(lines, i, path, current_level, current_match) ==
    IF i > Len(lines) THEN <<>>
    ELSE LET line == lines[i]
             cm == (line.level <= current_level /\ ~current_match)
                   \/ current_match
             at == IF line.level = 0 THEN Len(path) ELSE line.level
         IN  IF cm /\ line.level = Len(path) /\ line.tag = path[Len(path)]
             THEN <<line.value>>
             ELSE IF cm /\ line.level < Len(path) /\ line.tag = path[at]
             THEN ValueFrom(lines, i + 1, path, line.level, TRUE)
             ELSE ValueFrom(lines, i + 1, path, current_level, FALSE)

\* GedcomRecord.get_value(*path)
get_value(rec, path) == ValueFrom(rec.lines, 2, path, 0, TRUE)

\* GedcomRecord.get_all_values(tag, parent_tag); parent = "" when omitted
RECURSIVE AllValuesFrom(_, _, _, _, _)
AllValuesFrom(lines, i, tag, parent, inParent) ==
    IF i > Len(lines) THEN <<>>
    ELSE LET line == lines[i]
             inp == IF parent # "" /\ line.tag = parent THEN TRUE
                    ELSE IF parent # "" /\ line.level = 1 /\ line.tag # parent
                         THEN FALSE
                         ELSE inParent
         IN  (IF inp /\ line.tag = tag THEN <<line.value>> ELSE <<>>)
             \o AllValuesFrom(lines, i + 1, tag, parent, inp)

get_all_values(rec, tag, parent) ==
    AllValuesFrom(rec.lines, 2, tag, parent, parent = "")

(***************************************************************************)
(* dict: the items in insertion order                                      *)
(***************************************************************************)
Keys(d) == {d[i].k : i \in DOMAIN d}

Get(d, k) == d[CHOOSE i \in DOMAIN d : d[i].k = k].v

\* d[k] = v: a new key goes last, a key already present keeps its place
Put(d, k, v) ==
    IF k \in Keys(d)
    THEN [i \in DOMAIN d |-> IF d[i].k = k THEN [k |-> k, v |-> v] ELSE d[i]]
    ELSE Append(d, [k |-> k, v |-> v])

InSeq(x, s) == \E i \in DOMAIN s : s[i] = x

(***************************************************************************)
(* GedcomManager: load                                                     *)
(***************************************************************************)
\* the key a record is stored under: record.id or record.tag
RecordKey(rec) == IF rec.id # "" THEN rec.id ELSE rec.tag

\* one iteration of the loop of _parse over the lines of the file, p being
\* GedcomLine.parse(line); st.cur is current_record (0 for None)
ParseStep(st, p) ==
    IF ~p.ok THEN st
    ELSE IF p.line.level = 0
    THEN LET flushed == IF st.cur # 0
                        THEN Put(st.records, RecordKey(st.heap[st.cur]), st.cur)
                        ELSE st.records
             rec == GedcomRecord(p.line.xref,
                                 IF p.line.xref = "" THEN p.line.tag
                                 ELSE p.line.value,
                                 <<p.line>>)
             new == Len(st.heap) + 1
         IN  [heap |-> Append(st.heap, rec),
              records |-> flushed,
              header |-> IF p.line.tag = "HEAD" THEN new ELSE st.header,
              trailer |-> IF p.line.tag = "HEAD" THEN st.trailer
                          ELSE IF p.line.tag = "TRLR" THEN new
                          ELSE st.trailer,
              cur |-> new]
    ELSE IF st.cur # 0
    THEN [st EXCEPT !.heap[st.cur].lines = Append(@, p.line)]
    ELSE st

RECURSIVE ParseLoop(_, _, _)
ParseLoop(st, parsed, i) ==
    IF i > Len(parsed) THEN st
    ELSE ParseLoop(ParseStep(st, parsed[i]), parsed, i + 1)

\* _parse without the statement after its loop
ParseWithoutLastFlush(st, parsed) == ParseLoop(st, parsed, 1)

\* _parse: the loop, then the flush of the last record
Parse(st, parsed) ==
    LET end == ParseLoop(st, parsed, 1)
    IN  IF end.cur # 0
        THEN [end EXCEPT !.records = Put(@, RecordKey(end.heap[end.cur]), end.cur)]
        ELSE end

\* _build_indexes: the items of records whose record carries the type tag
\* are put, in order, into the typed mapping
RECURSIVE IndexFrom(_, _, _, _, _)
IndexFrom(index, recs, hp, tag, i) ==
    IF i > Len(recs) THEN index
    ELSE IndexFrom(IF hp[recs[i].v].tag = tag
                   THEN Put(index, recs[i].k, recs[i].v)
                   ELSE index,
                   recs, hp, tag, i + 1)

BuildIndex(index, recs, hp, tag) == IndexFrom(index, recs, hp, tag, 1)

\* re.match('@<letter>(\d+)@', key)
IdMatches(key, letter) ==
    /\ Len(key) >= 4
    /\ Take(key, 2) = "@" \o letter
    /\ DigitRun(Drop(key, 2)) >= 1
    /\ Len(key) >= 2 + DigitRun(Drop(key, 2)) + 1
    /\ SubSeq(key, 3 + DigitRun(Drop(key, 2)), 3 + DigitRun(Drop(key, 2))) = "@"

\* int(match.group(1))
IdNumber(key) == StrToInt(SubSeq(key, 3, 2 + DigitRun(Drop(key, 2))))

Max(a, b) == IF a >= b THEN a ELSE b

\* one loop of _update_id_counters
RECURSIVE CounterFrom(_, _, _, _)
CounterFrom(counter, index, letter, i) ==
    IF i > Len(index) THEN counter
    ELSE CounterFrom(IF IdMatches(index[i].k, letter)
                     THEN Max(counter, IdNumber(index[i].k) + 1)
                     ELSE counter,
                     index, letter, i + 1)

UpdateCounter(counter, index, letter) == CounterFrom(counter, index, letter, 1)

(***************************************************************************)
(* The identifier allocator                                                *)
(***************************************************************************)
\* f"@{letter}{counter}@"
FormatId(letter, counter) == "@" \o letter \o IntToStr(counter) \o "@"

(***************************************************************************)
(* GedcomManager: validate                                                 *)
(***************************************************************************)
GedcomValidationError(severity, record_id, message) ==
    [severity |-> severity, record_id |-> record_id, line_number |-> 0,
     message |-> message]

RECURSIVE Flatten(_)
Flatten(ss) == IF ss = <<>> THEN <<>> ELSE Head(ss) \o Flatten(Tail(ss))

\* _validate_ids: an error for each record whose id was seen on an earlier
\* record of records.values()
ValidateIds(recs, hp) ==
    Flatten([i \in DOMAIN recs |->
        LET rec == hp[recs[i].v]
        IN  IF rec.id # "" /\ \E j \in 1..(i - 1) : hp[recs[j].v].id = rec.id
            THEN <<GedcomValidationError("error", rec.id,
                                         "Duplicate ID: " \o rec.id)>>
            ELSE <<>>])

\* the errors of the FAMC loop of _validate_links
FamcErrors(indis, fams, hp) ==
    Flatten([i \in DOMAIN indis |->
        LET refs == get_all_values(hp[indis[i].v], "FAMC", "")
        IN  Flatten([r \in DOMAIN refs |->
                IF refs[r] \notin Keys(fams)
                THEN <<GedcomValidationError("error", indis[i].k,
                        "FAMC references non-existent family: " \o refs[r])>>
                ELSE <<>>])])

\* the warnings of the FAMC loop without its "if indi_id not in children"
FamcWarningsForEveryFamily(indis, fams, hp) ==
    Flatten([i \in DOMAIN indis |->
        LET refs == get_all_values(hp[indis[i].v], "FAMC", "")
        IN  Flatten([r \in DOMAIN refs |->
                IF refs[r] \in Keys(fams)
                THEN <<GedcomValidationError("warning", indis[i].k,
                        "FAMC " \o refs[r]
                        \o " does not list this person as CHIL")>>
                ELSE <<>>])])

\* the warnings of the FAMC loop of _validate_links
FamcWarnings(indis, fams, hp) ==
    Flatten([i \in DOMAIN indis |->
        LET refs == get_all_values(hp[indis[i].v], "FAMC", "")
        IN  Flatten([r \in DOMAIN refs |->
                IF refs[r] \in Keys(fams)
                   /\ ~InSeq(indis[i].k,
                             get_all_values(hp[Get(fams, refs[r])], "CHIL", ""))
                THEN <<GedcomValidationError("warning", indis[i].k,
                        "FAMC " \o refs[r]
                        \o " does not list this person as CHIL")>>
                ELSE <<>>])])

\* the FAMS loop of _validate_links
FamsErrors(indis, fams, hp) ==
    Flatten([i \in DOMAIN indis |->
        LET refs == get_all_values(hp[indis[i].v], "FAMS", "")
        IN  Flatten([r \in DOMAIN refs |->
                IF refs[r] \notin Keys(fams)
                THEN <<GedcomValidationError("error", indis[i].k,
                        "FAMS references non-existent family: " \o refs[r])>>
                ELSE <<>>])])

\* the family loop of _validate_links without its loop over the children
FamilyErrorsSpousesOnly(indis, fams, hp) ==
    Flatten([i \in DOMAIN fams |->
        LET fam == hp[fams[i].v]
            spouses == get_all_values(fam, "HUSB", "")
                       \o get_all_values(fam, "WIFE", "")
        IN  Flatten([r \in DOMAIN spouses |->
                IF spouses[r] \notin Keys(indis)
                THEN <<GedcomValidationError("error", fams[i].k,
                        "Spouse references non-existent individual: "
                        \o spouses[r])>>
                ELSE <<>>])])

\* the family loop of _validate_links: husb + wife, then the children
FamilyErrors(indis, fams, hp) ==
    Flatten([i \in DOMAIN fams |->
        LET fam == hp[fams[i].v]
            spouses == get_all_values(fam, "HUSB", "")
                       \o get_all_values(fam, "WIFE", "")
            children == get_all_values(fam, "CHIL", "")
        IN  Flatten([r \in DOMAIN spouses |->
                IF spouses[r] \notin Keys(indis)
                THEN <<GedcomValidationError("error", fams[i].k,
                        "Spouse references non-existent individual: "
                        \o spouses[r])>>
                ELSE <<>>])
            \o
            Flatten([r \in DOMAIN children |->
                IF children[r] \notin Keys(indis)
                THEN <<GedcomValidationError("error", fams[i].k,
                        "CHIL references non-existent individual: "
                        \o children[r])>>
                ELSE <<>>])])

LowerCase == "abcdefghijklmnopqrstuvwxyz"

UpperCase == "ABCDEFGHIJKLMNOPQRSTUVWXYZ"

UpperChar(c) ==
    IF \E i \in 1..26 : SubSeq(LowerCase, i, i) = c
    THEN LET i == CHOOSE i \in 1..26 : SubSeq(LowerCase, i, i) = c
         IN  SubSeq(UpperCase, i, i)
    ELSE c

RECURSIVE Upper(_)
Upper(s) == IF s = "" THEN "" ELSE UpperChar(Head(s)) \o Upper(Tail(s))

DateModifiers == {"ABT", "BEF", "AFT", "BET", "CAL", "EST"}

MonthNames == <<"JAN", "FEB", "MAR", "APR", "MAY", "JUN",
                "JUL", "AUG", "SEP", "OCT", "NOV", "DEC">>

\* the offsets where the match can stand after an optional word of length n
AfterWord(P, s, words, n) ==
    P \cup {p + n : p \in {q \in P : q + n <= Len(s)
                                    /\ Upper(SubSeq(s, q + 1, q + n)) \in words}}

\* ... after \s*: any number of the whitespace characters that follow
AfterSpaces(P, s) ==
    UNION {{p + k : k \in 0..SpaceRun(Drop(s, p))} : p \in P}

\* ... after an optional run of lo..hi digits
AfterDigits(P, s, lo, hi) ==
    P \cup UNION {{p + k : k \in {n \in lo..hi : n <= DigitRun(Drop(s, p))}} :
                  p \in P}

\* the end of the pattern without its group (\s+AND\s+.*)?
DateTailAtEndOnly(t) == t = ""

\* (\s+AND\s+.*)?$ at the rest t of the value
DateTail(t) ==
    \/ t = ""
    \/ LET w == SpaceRun(t)
       IN  /\ w >= 1
           /\ Len(t) >= w + 4
           /\ Upper(SubSeq(t, w + 1, w + 3)) = "AND"
           /\ IsSpace(SubSeq(t, w + 4, w + 4))

\* date_pattern.match(value), re.IGNORECASE
DatePatternMatch(value) ==
    LET p1 == AfterSpaces(AfterWord({0}, value, DateModifiers, 3), value)
        p2 == AfterSpaces(AfterDigits(p1, value, 1, 2), value)
        p3 == AfterSpaces(AfterWord(p2, value,
                                    {MonthNames[m] : m \in 1..12}, 3), value)
        p4 == AfterDigits(p3, value, 4, 4)
    IN  \E p \in p4 : DateTail(Drop(value, p))

\* _validate_dates
ValidateDates(recs, hp) ==
    Flatten([i \in DOMAIN recs |->
        LET lines == hp[recs[i].v].lines
        IN  Flatten([j \in DOMAIN lines |->
                IF lines[j].tag = "DATE" /\ lines[j].value # ""
                   /\ ~DatePatternMatch(lines[j].value)
                THEN <<GedcomValidationError("warning", recs[i].k,
                        "Non-standard date format: " \o lines[j].value)>>
                ELSE <<>>])])

\* self.errors after validate()
ValidateErrors(recs, indis, fams, hp) ==
    ValidateIds(recs, hp) \o FamcErrors(indis, fams, hp)
    \o FamsErrors(indis, fams, hp) \o FamilyErrors(indis, fams, hp)

\* self.warnings after validate()
ValidateWarnings(recs, indis, fams, hp) ==
    FamcWarnings(indis, fams, hp) \o ValidateDates(recs, hp)

(***************************************************************************)
(* core.models: the parts of the domain model the manager uses.  An        *)
(* optional object is a sequence of length 0 (None) or 1.                  *)
(***************************************************************************)
\* s.split(",")
RECURSIVE SplitComma(_)
SplitComma(s) ==
    LET n == RunUntil(s, ",")
    IN  IF n = Len(s) THEN <<s>>
        ELSE <<Take(s, n)>> \o SplitComma(Drop(s, n + 1))

\* Place.from_string
PlaceFromString(place_str) ==
    LET raw == SplitComma(place_str)
        parts == [i \in DOMAIN raw |-> Strip(raw[i])]
        n == Len(parts)
    IN  IF n = 2
        THEN [name |-> place_str, city |-> parts[1], county |-> "",
              state |-> "", country |-> parts[2]]
        ELSE IF n = 3
        THEN [name |-> place_str, city |-> parts[1], county |-> "",
              state |-> parts[2], country |-> parts[3]]
        ELSE [name |-> place_str,
              city |-> parts[1],
              county |-> IF n > 1 THEN parts[2] ELSE "",
              state |-> IF n > 2 THEN parts[3] ELSE "",
              country |-> IF n > 3 THEN parts[4] ELSE ""]

\* Place.to_gedcom
PlaceToGedcom(place) == place.name

RECURSIVE Join(_)
Join(parts) ==
    IF parts = <<>> THEN ""
    ELSE IF Len(parts) = 1 THEN parts[1]
    ELSE parts[1] \o " " \o Join(Tail(parts))

\* GenealogyDate.to_gedcom; modifier is the value of the DateModifier
DateToGedcom(d) ==
    Join((IF d.modifier # "exact" THEN <<d.modifier>> ELSE <<>>)
         \o (IF d.day # 0 THEN <<IntToStr(d.day)>> ELSE <<>>)
         \o (IF d.month # 0 THEN <<MonthNames[d.month]>> ELSE <<>>)
         \o (IF d.year # 0 THEN <<IntToStr(d.year)>> ELSE <<>>)
         \o (IF d.modifier = "BET" /\ d.end_year # 0
             THEN <<"AND">>
                  \o (IF d.end_day # 0 THEN <<IntToStr(d.end_day)>> ELSE <<>>)
                  \o (IF d.end_month # 0 THEN <<MonthNames[d.end_month]>>
                      ELSE <<>>)
                  \o <<IntToStr(d.end_year)>>
             ELSE <<>>))

\* Name.gedcom_name
GedcomName(name) == name.given \o " /" \o name.surname \o "/"

\* Person.primary_name
PrimaryName(person) ==
    IF \E i \in DOMAIN person.names : person.names[i].name_type = "birth"
    THEN <<person.names[CHOOSE i \in DOMAIN person.names :
                /\ person.names[i].name_type = "birth"
                /\ \A j \in 1..(i - 1) : person.names[j].name_type # "birth"]>>
    ELSE IF person.names # <<>> THEN <<person.names[1]>> ELSE <<>>

(***************************************************************************)
(* GedcomManager: get_person                                               *)
(***************************************************************************)
\* re.match('^([^/]*)\s*/([^/]*)/(.*)$', nv): the names get_person appends
PersonNames(values) ==
    Flatten([i \in DOMAIN values |->
        LET nv == values[i]
            a == RunUntil(nv, "/")
            rest == Drop(nv, a + 1)
            b == RunUntil(rest, "/")
        IN  IF a < Len(nv) /\ b < Len(rest)
            THEN <<[given |-> Strip(Take(nv, a)), surname |-> Strip(Take(rest, b))]>>
            ELSE <<>>])

\* index of the first line equal to line: record.lines.index(line)
IndexOf(lines, line) ==
    CHOOSE i \in DOMAIN lines :
        lines[i] = line /\ \A j \in 1..(i - 1) : lines[j] # line

\* the inner loop over record.lines[record.lines.index(line):], from j on.
\* GenealogyDate has no from_string (models.py defines from_gedcom only), so
\* reaching a DATE subline raises AttributeError.
RECURSIVE SubScan(_, _, _, _)
SubScan(lines, line, j, place) ==
    IF j > Len(lines) THEN [raised |-> FALSE, place |-> place]
    ELSE LET sub == lines[j]
         IN  IF sub.level <= line.level /\ sub # line
             THEN [raised |-> FALSE, place |-> place]
             ELSE IF sub.tag = "DATE"
             THEN [raised |-> TRUE, place |-> place]
             ELSE SubScan(lines, line, j + 1,
                          IF sub.tag = "PLAC"
                          THEN <<PlaceFromString(sub.value)>> ELSE place)

\* the outer loop over record.lines for the event tag (BIRT or DEAT)
RECURSIVE EventScan(_, _, _, _)
EventScan(lines, tag, i, place) ==
    IF i > Len(lines) THEN [raised |-> FALSE, place |-> place]
    ELSE IF lines[i].tag = tag
    THEN LET r == SubScan(lines, lines[i], IndexOf(lines, lines[i]), place)
         IN  IF r.raised THEN r ELSE EventScan(lines, tag, i + 1, r.place)
    ELSE EventScan(lines, tag, i + 1, place)

Event(event_type, date, place) ==
    [event_type |-> event_type, date |-> date, place |-> place]

\* get_person on a record of individuals: the outcome and the Person.
\* famc_refs and fams_refs are computed and dropped: the Person keeps the
\* default, empty, parent_family_ids and spouse_family_ids.
GetPersonOf(gedcom_id, rec) ==
    LET sexes == get_all_values(rec, "SEX", "")
        birth == EventScan(rec.lines, "BIRT", 1, <<>>)
        death == EventScan(rec.lines, "DEAT", 1, <<>>)
    IN  IF birth.raised \/ death.raised
        THEN [raised |-> TRUE, val |-> <<>>]
        ELSE [raised |-> FALSE,
              val |-> <<[gedcom_id |-> gedcom_id,
                         names |-> PersonNames(get_all_values(rec, "NAME", "")),
                         sex |-> IF sexes = <<>> THEN "U"
                                 ELSE IF sexes[1] \in {"M", "F"} THEN sexes[1]
                                 ELSE "U",
                         birth |-> IF birth.place # <<>>
                                   THEN <<Event("BIRT", <<>>, birth.place)>>
                                   ELSE <<>>,
                         death |-> IF death.place # <<>>
                                   THEN <<Event("DEAT", <<>>, death.place)>>
                                   ELSE <<>>,
                         parent_family_ids |-> <<>>,
                         spouse_family_ids |-> <<>>]>>]

(***************************************************************************)
(* GedcomManager: the mutators                                             *)
(***************************************************************************)
\* the sub-lines add_person writes for person.birth or person.death
EventLines(tag, event) ==
    IF event = <<>> THEN <<>>
    ELSE <<GedcomLine(1, tag, "", "")>>
         \o (IF event[1].date # <<>>
             THEN <<GedcomLine(2, "DATE", DateToGedcom(event[1].date[1]), "")>>
             ELSE <<>>)
         \o (IF event[1].place # <<>>
             THEN <<GedcomLine(2, "PLAC", PlaceToGedcom(event[1].place[1]), "")>>
             ELSE <<>>)

\* the lines of the record add_person builds
PersonLines(gedcom_id, person) ==
    LET pn == PrimaryName(person)
    IN  <<GedcomLine(0, "INDI", "", gedcom_id)>>
        \o (IF pn # <<>>
            THEN <<GedcomLine(1, "NAME", GedcomName(pn[1]), ""),
                   GedcomLine(2, "GIVN", pn[1].given, ""),
                   GedcomLine(2, "SURN", pn[1].surname, "")>>
                 \o (IF pn[1].nickname # ""
                     THEN <<GedcomLine(2, "NICK", pn[1].nickname, "")>>
                     ELSE <<>>)
            ELSE <<>>)
        \o <<GedcomLine(1, "SEX", person.sex, "")>>
        \o EventLines("BIRT", person.birth)
        \o EventLines("DEAT", person.death)

\* _add_fams_link / _add_famc_link with level=0 for the line they append
AddLinkAtLevelZero(hp, indis, indi_id, tag, fam_id) ==
    IF indi_id \in Keys(indis)
    THEN [hp EXCEPT ![Get(indis, indi_id)].lines =
              Append(@, GedcomLine(0, tag, fam_id, ""))]
    ELSE hp

\* _add_fams_link / _add_famc_link: append a level-1 line to the record
\* that individuals holds for indi_id, when it holds one
AddLink(hp, indis, indi_id, tag, fam_id) ==
    IF indi_id \in Keys(indis)
    THEN [hp EXCEPT ![Get(indis, indi_id)].lines =
              Append(@, GedcomLine(1, tag, fam_id, ""))]
    ELSE hp

RECURSIVE AddChildLinks(_, _, _, _, _)
AddChildLinks(hp, indis, children_ids, fam_id, i) ==
    IF i > Len(children_ids) THEN hp
    ELSE AddChildLinks(AddLink(hp, indis, children_ids[i], "FAMC", fam_id),
                       indis, children_ids, fam_id, i + 1)

\* the link patches of add_family without those of the loop over the
\* children
FamilyLinksSpousesOnly(hp, indis, a, fam_id) ==
    LET h1 == IF a.husband_id # ""
              THEN AddLink(hp, indis, a.husband_id, "FAMS", fam_id) ELSE hp
    IN  IF a.wife_id # ""
        THEN AddLink(h1, indis, a.wife_id, "FAMS", fam_id) ELSE h1

\* the heap after the link patches of add_family, in the order of the code:
\* husband, wife, children
FamilyLinks(hp, indis, a, fam_id) ==
    LET h1 == IF a.husband_id # ""
              THEN AddLink(hp, indis, a.husband_id, "FAMS", fam_id) ELSE hp
        h2 == IF a.wife_id # ""
              THEN AddLink(h1, indis, a.wife_id, "FAMS", fam_id) ELSE h1
    IN  AddChildLinks(h2, indis, a.children_ids, fam_id, 1)

\* the lines of the record add_family builds, without the CHIL lines
FamilyLinesWithoutChildren(gedcom_id, a) ==
    <<GedcomLine(0, "FAM", "", gedcom_id)>>
    \o (IF a.husband_id # ""
        THEN <<GedcomLine(1, "HUSB", a.husband_id, "")>> ELSE <<>>)
    \o (IF a.wife_id # ""
        THEN <<GedcomLine(1, "WIFE", a.wife_id, "")>> ELSE <<>>)
    \o (IF a.marriage_date # <<>> \/ a.marriage_place # <<>>
        THEN <<GedcomLine(1, "MARR", "", "")>>
             \o (IF a.marriage_date # <<>>
                 THEN <<GedcomLine(2, "DATE", DateToGedcom(a.marriage_date[1]), "")>>
                 ELSE <<>>)
             \o (IF a.marriage_place # <<>>
                 THEN <<GedcomLine(2, "PLAC", PlaceToGedcom(a.marriage_place[1]), "")>>
                 ELSE <<>>)
        ELSE <<>>)

\* the lines of the record add_family builds
FamilyLines(gedcom_id, a) ==
    <<GedcomLine(0, "FAM", "", gedcom_id)>>
    \o (IF a.husband_id # ""
        THEN <<GedcomLine(1, "HUSB", a.husband_id, "")>> ELSE <<>>)
    \o (IF a.wife_id # ""
        THEN <<GedcomLine(1, "WIFE", a.wife_id, "")>> ELSE <<>>)
    \o (IF a.marriage_date # <<>> \/ a.marriage_place # <<>>
        THEN <<GedcomLine(1, "MARR", "", "")>>
             \o (IF a.marriage_date # <<>>
                 THEN <<GedcomLine(2, "DATE", DateToGedcom(a.marriage_date[1]), "")>>
                 ELSE <<>>)
             \o (IF a.marriage_place # <<>>
                 THEN <<GedcomLine(2, "PLAC", PlaceToGedcom(a.marriage_place[1]), "")>>
                 ELSE <<>>)
        ELSE <<>>)
    \o [i \in DOMAIN a.children_ids |->
            GedcomLine(1, "CHIL", a.children_ids[i], "")]

\* the lines of the record add_source builds
SourceLines(gedcom_id, source) ==
    <<GedcomLine(0, "SOUR", "", gedcom_id),
      GedcomLine(1, "TITL", source.title, "")>>
    \o (IF source.author # ""
        THEN <<GedcomLine(1, "AUTH", source.author, "")>> ELSE <<>>)
    \o (IF source.publisher # ""
        THEN <<GedcomLine(1, "PUBL", source.publisher, "")>> ELSE <<>>)
    \o (IF source.notes # ""
        THEN <<GedcomLine(1, "NOTE", source.notes, "")>> ELSE <<>>)

(***************************************************************************)
(* GedcomManager: the queries                                              *)
(***************************************************************************)
LowerChar(c) ==
    IF \E i \in 1..26 : SubSeq(UpperCase, i, i) = c
    THEN LET i == CHOOSE i \in 1..26 : SubSeq(UpperCase, i, i) = c
         IN  SubSeq(LowerCase, i, i)
    ELSE c

RECURSIVE Lower(_)
Lower(s) == IF s = "" THEN "" ELSE LowerChar(Head(s)) \o Lower(Tail(s))

\* find_person_by_name; a filter that is None is "" here, and "" is in
\* every name
FindPersonByName(indis, hp, given, surname) ==
    Flatten([i \in DOMAIN indis |->
        LET names == get_all_values(hp[indis[i].v], "NAME", "")
        IN  IF \E n \in DOMAIN names :
                   /\ Contains(Lower(names[n]), Lower(given))
                   /\ Contains(Lower(names[n]), Lower(surname))
            THEN <<indis[i].k>>
            ELSE <<>>])

(***************************************************************************)
(* GedcomManager: generate_name_variants                                   *)
(***************************************************************************)
\* s.replace(old, new): every occurrence, from the left, without overlap
RECURSIVE Replace(_, _, _)
Replace(s, old, new) ==
    IF Len(s) < Len(old) THEN s
    ELSE IF Take(s, Len(old)) = old
    THEN new \o Replace(Drop(s, Len(old)), old, new)
    ELSE Take(s, 1) \o Replace(Drop(s, 1), old, new)

\* s.replace(old, new, 1): the first occurrence
RECURSIVE ReplaceFirst(_, _, _)
ReplaceFirst(s, old, new) ==
    IF Len(s) < Len(old) THEN s
    ELSE IF Take(s, Len(old)) = old
    THEN new \o Drop(s, Len(old))
    ELSE Take(s, 1) \o ReplaceFirst(Drop(s, 1), old, new)

IsLetter(c) ==
    \E i \in 1..26 : c \in {SubSeq(LowerCase, i, i), SubSeq(UpperCase, i, i)}

\* s.title() from the rest s of the string on: a letter is upper case after
\* a character that is no letter (and first in the string) and lower case
\* after a letter
RECURSIVE TitleFrom(_, _)
TitleFrom(s, afterLetter) ==
    IF s = "" THEN ""
    ELSE (IF afterLetter THEN LowerChar(Take(s, 1)) ELSE UpperChar(Take(s, 1)))
         \o TitleFrom(Drop(s, 1), IsLetter(Take(s, 1)))

Title(s) == TitleFrom(s, FALSE)

\* the characters of the surnames in the order of their code points
CodePoints == " '-ABCDEFGHIJKLMNOPQRSTUVWXYZabcdefghijklmnopqrstuvwxyz"

Ord(c) == CHOOSE i \in 1..Len(CodePoints) : SubSeq(CodePoints, i, i) = c

\* a < b for str
RECURSIVE StrLess(_, _)
StrLess(a, b) ==
    IF b = "" THEN FALSE
    ELSE IF a = "" THEN TRUE
    ELSE IF Take(a, 1) = Take(b, 1) THEN StrLess(Drop(a, 1), Drop(b, 1))
    ELSE Ord(Take(a, 1)) < Ord(Take(b, 1))

substitutions ==
    <<<<"ck", "k">>, <<"ck", "c">>, <<"x", "cks">>, <<"x", "ks">>,
      <<"ae", "a">>, <<"oe", "o">>, <<"ue", "u">>, <<"y", "ij">>,
      <<"ij", "y">>, <<"dt", "t">>, <<"dt", "d">>, <<"sch", "sh">>>>

DoubleLetters == "bcdfglmnprst"

\* the set variants with the lower-cased surname added to it
NameVariantsWithLower(surname) ==
    LET low == Lower(surname)
        chars == {SubSeq(DoubleLetters, i, i) : i \in 1..Len(DoubleLetters)}
    IN  {surname, low}
        \cup {Replace(low, substitutions[i][1], substitutions[i][2]) :
                i \in {j \in DOMAIN substitutions :
                            Contains(low, substitutions[j][1])}}
        \cup {Replace(low, substitutions[i][2], substitutions[i][1]) :
                i \in {j \in DOMAIN substitutions :
                            Contains(low, substitutions[j][2])}}
        \cup {Replace(low, c \o c, c) : c \in {d \in chars : Contains(low, d \o d)}}
        \cup {ReplaceFirst(low, c, c \o c) :
                c \in {d \in chars : Contains(low, d) /\ ~Contains(low, d \o d)}}

\* the set variants when generate_name_variants returns: the surname, then
\* for each substitution the lower-cased surname with old replaced by new
\* and with new replaced by old, where it contains them, then the double
\* letters made single and the single letters doubled once
NameVariants(surname) ==
    LET low == Lower(surname)
        chars == {SubSeq(DoubleLetters, i, i) : i \in 1..Len(DoubleLetters)}
    IN  {surname}
        \cup {Replace(low, substitutions[i][1], substitutions[i][2]) :
                i \in {j \in DOMAIN substitutions :
                            Contains(low, substitutions[j][1])}}
        \cup {Replace(low, substitutions[i][2], substitutions[i][1]) :
                i \in {j \in DOMAIN substitutions :
                            Contains(low, substitutions[j][2])}}
        \cup {Replace(low, c \o c, c) : c \in {d \in chars : Contains(low, d \o d)}}
        \cup {ReplaceFirst(low, c, c \o c) :
                c \in {d \in chars : Contains(low, d) /\ ~Contains(low, d \o d)}}

\* sorted(v.title() for v in S): one item for each member of S
RECURSIVE SortedTitles(_)
SortedTitles(S) ==
    IF S = {} THEN <<>>
    ELSE LET m == CHOOSE x \in S : \A y \in S : ~StrLess(Title(y), Title(x))
         IN  <<Title(m)>> \o SortedTitles(S \ {m})

\* generate_name_variants(surname)
generate_name_variants(surname) == SortedTitles(NameVariants(surname))

(***************************************************************************)
(* GedcomManager: save                                                     *)
(***************************************************************************)
\* _update_header: the lines of the header with every DATE and TIME value
\* set from now
UpdateHeader(lines, now) ==
    [i \in DOMAIN lines |->
        IF lines[i].tag = "DATE" THEN [lines[i] EXCEPT !.value = now.date]
        ELSE IF lines[i].tag = "TIME" THEN [lines[i] EXCEPT !.value = now.time]
        ELSE lines[i]]

\* _write_record: one text line for each line of the record
WriteRecord(rec) == [i \in DOMAIN rec.lines |-> to_string(rec.lines[i])]

\* save without its "if record != self.header and record != self.trailer"
SaveTextOfAllRecords(hp, recs, hdr, trl) ==
    (IF hdr # 0 THEN WriteRecord(hp[hdr]) ELSE <<>>)
    \o Flatten([i \in DOMAIN recs |-> WriteRecord(hp[recs[i].v])])
    \o <<"0 TRLR">>

\* what save writes: the header, then every record of records that equals
\* neither the header nor the trailer (the == of the dataclass compares the
\* fields), then the trailer line
SaveText(hp, recs, hdr, trl) ==
    (IF hdr # 0 THEN WriteRecord(hp[hdr]) ELSE <<>>)
    \o Flatten([i \in DOMAIN recs |->
            IF /\ (hdr = 0 \/ hp[recs[i].v] # hp[hdr])
               /\ (trl = 0 \/ hp[recs[i].v] # hp[trl])
            THEN WriteRecord(hp[recs[i].v])
            ELSE <<>>])
    \o <<"0 TRLR">>

(***************************************************************************)
(* The inputs of the exploration                                           *)
(***************************************************************************)
\* three individuals and the family that links them, as in the spec's
\* first scenario
FamilyFile ==
    <<"0 HEAD", "1 SOUR Test", "1 DATE 15 MAR 2020", "2 TIME 10:00:00",
      "0 @I1@ INDI", "1 NAME Jan /Smet/",
      "1 FAMS @F1@", "0 @I2@ INDI", "1 FAMS @F1@", "0 @I3@ INDI",
      "1 FAMC @F1@", "0 @F1@ FAM", "1 HUSB @I1@", "1 WIFE @I2@",
      "1 CHIL @I3@", "0 TRLR">>

\* the file of test_validate_orphan_family_reference
OrphanFile ==
    <<"0 HEAD", "1 SOUR Test", "0 @I001@ INDI", "1 NAME Test /PERSON/",
      "1 FAMS @F999@", "0 TRLR">>

\* two records with one identifier
DuplicateFile ==
    <<"0 @I1@ INDI", "1 NAME A /B/", "0 @I1@ INDI", "1 NAME C /D/", "0 TRLR">>

\* level-0 lines that carry a value after the tag, a line before the first
\* record, a blank line and a line that is no GEDCOM line; FAMC references to
\* a family that lists the child, to one that does not, and to no family;
\* DATE lines with a free text, with dates of the grammar and with no value
ValuedFile ==
    <<"1 NOTE stray", "0 @I1@ INDI INDI", "", "1 NAME Jan /Smet/",
      "0 @I2@ INDI INDI", "1 FAMC @F3@",
      "0 @I3@ INDI INDI", "no line", "1 FAMC @F8@",
      "0 @I9@ INDI INDI", "1 BIRT", "2 DATE sometime last spring",
      "2 PLAC Tervuren, Belgium", "1 DEAT", "2 DATE ABT 1895", "1 EVEN",
      "2 DATE", "1 CENS", "2 DATE bet 1890 AND 1895", "2 SOUR @S2@",
      "3 PAGE 4", "2 NOTE seen", "3 CONT twice", "1 FAMC @F3@",
      "0 @F3@ FAM FAM", "1 CHIL @I7@", "1 CHIL @I9@", "0 @S2@ SOUR SOUR",
      "0 @R4@ REPO REPO", "0 TRLR">>

\* the file of test_validate_missing_required_fields: no HEAD record
NoHeadFile ==
    <<"0 @I001@ INDI", "1 NAME Test /PERSON/", "0 TRLR">>

FileSystem ==
    [path \in {"family.ged", "orphan.ged", "duplicate.ged", "valued.ged",
               "bad.ged"} |->
        CASE path = "family.ged" -> FamilyFile
          [] path = "orphan.ged" -> OrphanFile
          [] path = "duplicate.ged" -> DuplicateFile
          [] path = "valued.ged" -> ValuedFile
          [] path = "bad.ged" -> NoHeadFile]

\* the paths save is called with, and the one of them whose directory does
\* not exist, so that open(path, "w") raises
SavePaths == {"out.ged", "nodir/out.ged"}

\* save(path, update_header) as it is called
SaveArgs == {<<"out.ged", TRUE>>, <<"out.ged", FALSE>>,
             <<"nodir/out.ged", TRUE>>}

NoDirectory == {"nodir/out.ged"}

\* datetime.now(), as _update_header formats it
Clock == {[date |-> "01 NOV 2026", time |-> "12:00:00"]}

Paths == DOMAIN FileSystem \cup {"out.ged"}

\* GedcomLine.parse of every line of every file
ParsedFiles ==
    [path \in DOMAIN FileSystem |->
        [i \in DOMAIN FileSystem[path] |-> GedcomLineParse(FileSystem[path][i])]]

GenealogyDate(day, month, year, modifier) ==
    [day |-> day, month |-> month, year |-> year, modifier |-> modifier,
     end_day |-> 0, end_month |-> 0, end_year |-> 0]

Persons ==
    { [gedcom_id |-> "", names |-> <<>>, sex |-> "U", birth |-> <<>>,
       death |-> <<>>],
      [gedcom_id |-> "@I1@",
       names |-> <<[given |-> "Jan", surname |-> "Smet", nickname |-> "",
                    name_type |-> "birth"]>>,
       sex |-> "M",
       birth |-> <<[date |-> <<GenealogyDate(15, 3, 1895, "exact")>>,
                    place |-> <<>>]>>,
       death |-> <<[date |-> <<>>,
                    place |-> <<PlaceFromString("Detroit, Michigan, USA")>>]>>],
      [gedcom_id |-> "@F1@",
       names |-> <<[given |-> "", surname |-> "Smet", nickname |-> "",
                    name_type |-> "birth"]>>,
       sex |-> "F", birth |-> <<>>, death |-> <<>>] }

FamilyArgs ==
    { [husband_id |-> "@I1@", wife_id |-> "", children_ids |-> <<"@I3@">>,
       marriage_date |-> <<>>, marriage_place |-> <<>>],
      [husband_id |-> "@I1@", wife_id |-> "@I2@", children_ids |-> <<"@I3@">>,
       marriage_date |-> <<GenealogyDate(0, 0, 1890, "ABT")>>,
       marriage_place |-> <<>>],
      [husband_id |-> "", wife_id |-> "@I2@", children_ids |-> <<>>,
       marriage_date |-> <<>>,
       marriage_place |-> <<PlaceFromString("Overijse, Brabant, Belgium")>>] }

SourceArgs ==
    { [title |-> "Census", author |-> "State", publisher |-> "",
       notes |-> "film 12"] }

PersonIds == {"@I1@", "@I3@"}

\* the surnames generate_name_variants is called with
Surnames == {"HERINCKX", "SMITH", "De Smedt"}

\* generate_name_variants of every surname
VariantLists == [surname \in Surnames |-> generate_name_variants(surname)]

\* the records get_value is called on and the paths it is called with
ValueKeys == {"@F1@"}

ValuePaths == {<<"SEX">>, <<"NAME", "SURN">>, <<"MARR", "DATE">>}

\* the record get_all_values is called on, and its (tag, parent_tag) with ""
\* for a parent_tag left out
AllValuesKeys == {"@I9@"}

AllValuesArgs == {<<"DATE", "">>, <<"DATE", "BIRT">>, <<"CONT", "SOUR">>}

NameFilters == {<<"jan", "SMET">>, <<"", "x">>}

(***************************************************************************)
(* The state machine                                                       *)
(***************************************************************************)
Result(op, arg, val, raised) ==
    [op |-> op, arg |-> arg, val |-> val, raised |-> raised]

\* the log entry of a call: what was called, with what, and the identifier it
\* returned ("" when it returns none)
Call(op, arg, id) == [op |-> op, arg |-> arg, id |-> id]

\* the calls that build a store in memory
MutationOps == {"add_person", "add_family", "add_source"}

\* a run has room for one more call
CallsLeft == Len(calls) < MaxCalls

\* a run has room for a validate(): as for any call, or at the end of a run
\* made of MutationOps calls alone, or right after another validate()
ValidateLeft ==
    \/ CallsLeft
    \/ /\ Len(calls) < MaxMutations
       /\ \/ \A i \in DOMAIN calls : calls[i].op \in MutationOps
          \/ calls # <<>> /\ calls[Len(calls)].op = "validate"

\* two callers of one manager
Threads == {1, 2}

Init ==
    /\ heap = <<>>
    /\ records = <<>>
    /\ header = 0
    /\ trailer = 0
    /\ individuals = <<>>
    /\ families = <<>>
    /\ sources = <<>>
    /\ repositories = <<>>
    /\ errors = <<>>
    /\ warnings = <<>>
    /\ next_indi_id = 1
    /\ next_fam_id = 1
    /\ next_sour_id = 1
    /\ next_repo_id = 1
    /\ ret = Result("init", <<>>, <<>>, FALSE)
    /\ calls = <<>>
    /\ files = <<>>
    /\ pc = [t \in Threads |-> "idle"]
    /\ out = [t \in Threads |-> <<>>]

\* the lines of a file, each through GedcomLine.parse: a file that was there
\* from the start, or one that save wrote
ParsedLines(path) ==
    IF path \in DOMAIN FileSystem THEN ParsedFiles[path]
    ELSE LET text == Get(files, path)
         IN  [i \in DOMAIN text |-> GedcomLineParse(text[i])]

\* the manager after _parse, _build_indexes and _update_id_counters on the
\* parsed lines of a file; m is the manager before
LoadInto(m, parsed) ==
    LET st == Parse([heap |-> m.heap, records |-> m.records,
                     header |-> m.header, trailer |-> m.trailer,
                     cur |-> 0], parsed)
        indis == BuildIndex(m.individuals, st.records, st.heap, "INDI")
        fams == BuildIndex(m.families, st.records, st.heap, "FAM")
        sours == BuildIndex(m.sources, st.records, st.heap, "SOUR")
        repos == BuildIndex(m.repositories, st.records, st.heap, "REPO")
    IN  [heap |-> st.heap, records |-> st.records, header |-> st.header,
         trailer |-> st.trailer, individuals |-> indis, families |-> fams,
         sources |-> sours, repositories |-> repos,
         next_indi_id |-> UpdateCounter(m.next_indi_id, indis, "I"),
         next_fam_id |-> UpdateCounter(m.next_fam_id, fams, "F"),
         next_sour_id |-> UpdateCounter(m.next_sour_id, sours, "S"),
         next_repo_id |-> UpdateCounter(m.next_repo_id, repos, "R")]

\* the manager as a record
Manager ==
    [heap |-> heap, records |-> records, header |-> header,
     trailer |-> trailer, individuals |-> individuals, families |-> families,
     sources |-> sources, repositories |-> repositories,
     next_indi_id |-> next_indi_id, next_fam_id |-> next_fam_id,
     next_sour_id |-> next_sour_id, next_repo_id |-> next_repo_id]

\* GedcomManager(): the manager __init__ leaves
NewManager ==
    [heap |-> <<>>, records |-> <<>>, header |-> 0, trailer |-> 0,
     individuals |-> <<>>, families |-> <<>>, sources |-> <<>>,
     repositories |-> <<>>, next_indi_id |-> 1, next_fam_id |-> 1,
     next_sour_id |-> 1, next_repo_id |-> 1]

\* load(path) with "self.records = {}" before the open
LoadClearingFirst(path) ==
    /\ CallsLeft
    /\ UNCHANGED <<files, threads>>
    /\ calls' = Append(calls, Call("load", path, ""))
    /\ UNCHANGED <<errors, warnings>>
    /\ IF path \notin DOMAIN FileSystem \cup Keys(files)
       THEN /\ ret' = Result("load", path, <<>>, TRUE)
            /\ records' = <<>>
            /\ UNCHANGED <<heap, header, trailer, individuals, families,
                           sources, repositories, next_indi_id, next_fam_id,
                           next_sour_id, next_repo_id>>
       ELSE LET m == LoadInto([Manager EXCEPT !.records = <<>>],
                              ParsedLines(path))
            IN  /\ heap' = m.heap
                /\ records' = m.records
                /\ header' = m.header
                /\ trailer' = m.trailer
                /\ individuals' = m.individuals
                /\ families' = m.families
                /\ sources' = m.sources
                /\ repositories' = m.repositories
                /\ next_indi_id' = m.next_indi_id
                /\ next_fam_id' = m.next_fam_id
                /\ next_sour_id' = m.next_sour_id
                /\ next_repo_id' = m.next_repo_id
                /\ ret' = Result("load", path, <<>>, FALSE)

\* load(path): open raises for a path that names no file; otherwise
\* _parse, _build_indexes, _update_id_counters
Load(path) ==
    /\ CallsLeft
    /\ UNCHANGED <<files, threads>>
    /\ calls' = Append(calls, Call("load", path, ""))
    /\ UNCHANGED <<errors, warnings>>
    /\ IF path \notin DOMAIN FileSystem \cup Keys(files)
       THEN /\ ret' = Result("load", path, <<>>, TRUE)
            /\ UNCHANGED store
       ELSE LET m == LoadInto(Manager, ParsedLines(path))
            IN  /\ heap' = m.heap
                /\ records' = m.records
                /\ header' = m.header
                /\ trailer' = m.trailer
                /\ individuals' = m.individuals
                /\ families' = m.families
                /\ sources' = m.sources
                /\ repositories' = m.repositories
                /\ next_indi_id' = m.next_indi_id
                /\ next_fam_id' = m.next_fam_id
                /\ next_sour_id' = m.next_sour_id
                /\ next_repo_id' = m.next_repo_id
                /\ ret' = Result("load", path, <<>>, FALSE)

\* save(path, update_header): _update_header, then open(path, "w"), which
\* raises where the directory is missing, then the writes
Save(path, update_header, now) ==
    /\ CallsLeft
    /\ calls' = Append(calls, Call("save", <<path, update_header>>, ""))
    /\ heap' = IF update_header /\ header # 0
               THEN [heap EXCEPT ![header].lines = UpdateHeader(@, now)]
               ELSE heap
    /\ IF path \in NoDirectory
       THEN /\ ret' = Result("save", <<path, update_header>>, <<>>, TRUE)
            /\ UNCHANGED files
       ELSE /\ ret' = Result("save", <<path, update_header>>, <<>>, FALSE)
            /\ files' = Put(files, path,
                            SaveText(heap', records, header, trailer))
    /\ UNCHANGED <<records, header, trailer, individuals, families, sources,
                   repositories, errors, warnings, next_indi_id, next_fam_id,
                   next_sour_id, next_repo_id, threads>>

\* get_next_individual_id without its "self._next_indi_id += 1"
GetNextIndividualIdStuck ==
    /\ CallsLeft
    /\ UNCHANGED <<files, threads>>
    /\ calls' = Append(calls, Call("get_next_individual_id", <<>>,
                                   FormatId("I", next_indi_id)))
    /\ ret' = Result("get_next_individual_id", <<>>,
                     FormatId("I", next_indi_id), FALSE)
    /\ UNCHANGED <<store, errors, warnings>>

\* get_next_individual_id
GetNextIndividualId ==
    /\ CallsLeft
    /\ UNCHANGED <<files, threads>>
    /\ calls' = Append(calls, Call("get_next_individual_id", <<>>,
                                   FormatId("I", next_indi_id)))
    /\ next_indi_id' = next_indi_id + 1
    /\ ret' = Result("get_next_individual_id", <<>>,
                     FormatId("I", next_indi_id), FALSE)
    /\ UNCHANGED <<heap, records, header, trailer, individuals, families,
                   sources, repositories, errors, warnings, next_fam_id,
                   next_sour_id, next_repo_id>>

\* get_next_family_id
GetNextFamilyId ==
    /\ CallsLeft
    /\ UNCHANGED <<files, threads>>
    /\ calls' = Append(calls, Call("get_next_family_id", <<>>,
                                   FormatId("F", next_fam_id)))
    /\ next_fam_id' = next_fam_id + 1
    /\ ret' = Result("get_next_family_id", <<>>,
                     FormatId("F", next_fam_id), FALSE)
    /\ UNCHANGED <<heap, records, header, trailer, individuals, families,
                   sources, repositories, errors, warnings, next_indi_id,
                   next_sour_id, next_repo_id>>

\* get_next_source_id
GetNextSourceId ==
    /\ CallsLeft
    /\ UNCHANGED <<files, threads>>
    /\ calls' = Append(calls, Call("get_next_source_id", <<>>,
                                   FormatId("S", next_sour_id)))
    /\ next_sour_id' = next_sour_id + 1
    /\ ret' = Result("get_next_source_id", <<>>,
                     FormatId("S", next_sour_id), FALSE)
    /\ UNCHANGED <<heap, records, header, trailer, individuals, families,
                   sources, repositories, errors, warnings, next_indi_id,
                   next_fam_id, next_repo_id>>

\* get_next_repo_id
GetNextRepoId ==
    /\ CallsLeft
    /\ UNCHANGED <<files, threads>>
    /\ calls' = Append(calls, Call("get_next_repo_id", <<>>,
                                   FormatId("R", next_repo_id)))
    /\ next_repo_id' = next_repo_id + 1
    /\ ret' = Result("get_next_repo_id", <<>>,
                     FormatId("R", next_repo_id), FALSE)
    /\ UNCHANGED <<heap, records, header, trailer, individuals, families,
                   sources, repositories, errors, warnings, next_indi_id,
                   next_fam_id, next_sour_id>>

\* add_person(person)
AddPerson(person) ==
    /\ CallsLeft
    /\ UNCHANGED <<files, threads>>
    /\ LET fresh == person.gedcom_id = ""
           gedcom_id == IF fresh THEN FormatId("I", next_indi_id)
                        ELSE person.gedcom_id
           new == Len(heap) + 1
       IN  /\ next_indi_id' = IF fresh THEN next_indi_id + 1 ELSE next_indi_id
           /\ calls' = Append(calls, Call("add_person", person, gedcom_id))
           /\ heap' = Append(heap, GedcomRecord(gedcom_id, "INDI",
                                                PersonLines(gedcom_id, person)))
           /\ records' = Put(records, gedcom_id, new)
           /\ individuals' = Put(individuals, gedcom_id, new)
           /\ ret' = Result("add_person", person, gedcom_id, FALSE)
    /\ UNCHANGED <<header, trailer, families, sources, repositories, errors,
                   warnings, next_fam_id, next_sour_id, next_repo_id>>

\* add_family(husband_id, wife_id, children_ids, marriage_date,
\* marriage_place)
AddFamily(a) ==
    /\ CallsLeft
    /\ UNCHANGED <<files, threads>>
    /\ LET gedcom_id == FormatId("F", next_fam_id)
           linked == FamilyLinks(heap, individuals, a, gedcom_id)
           new == Len(heap) + 1
       IN  /\ next_fam_id' = next_fam_id + 1
           /\ calls' = Append(calls, Call("add_family", a, gedcom_id))
           /\ heap' = Append(linked, GedcomRecord(gedcom_id, "FAM",
                                                  FamilyLines(gedcom_id, a)))
           /\ records' = Put(records, gedcom_id, new)
           /\ families' = Put(families, gedcom_id, new)
           /\ ret' = Result("add_family", a, gedcom_id, FALSE)
    /\ UNCHANGED <<header, trailer, individuals, sources, repositories, errors,
                   warnings, next_indi_id, next_sour_id, next_repo_id>>

\* add_source(source)
AddSource(source) ==
    /\ CallsLeft
    /\ UNCHANGED <<files, threads>>
    /\ LET gedcom_id == FormatId("S", next_sour_id)
           new == Len(heap) + 1
       IN  /\ next_sour_id' = next_sour_id + 1
           /\ calls' = Append(calls, Call("add_source", source, gedcom_id))
           /\ heap' = Append(heap, GedcomRecord(gedcom_id, "SOUR",
                                                SourceLines(gedcom_id, source)))
           /\ records' = Put(records, gedcom_id, new)
           /\ sources' = Put(sources, gedcom_id, new)
           /\ ret' = Result("add_source", source, gedcom_id, FALSE)
    /\ UNCHANGED <<header, trailer, individuals, families, repositories,
                   errors, warnings, next_indi_id, next_fam_id, next_repo_id>>

\* validate() without its "self.errors = []" and "self.warnings = []"
ValidateWithoutReset ==
    /\ ValidateLeft
    /\ UNCHANGED <<files, threads>>
    /\ calls' = Append(calls, Call("validate", <<>>, ""))
    /\ errors' = errors \o ValidateErrors(records, individuals, families, heap)
    /\ warnings' = warnings
                   \o ValidateWarnings(records, individuals, families, heap)
    /\ ret' = Result("validate", <<>>, errors' \o warnings', FALSE)
    /\ UNCHANGED store

\* validate(): returns self.errors + self.warnings
Validate ==
    /\ ValidateLeft
    /\ UNCHANGED <<files, threads>>
    /\ calls' = Append(calls, Call("validate", <<>>, ""))
    /\ errors' = ValidateErrors(records, individuals, families, heap)
    /\ warnings' = ValidateWarnings(records, individuals, families, heap)
    /\ ret' = Result("validate", <<>>, errors' \o warnings', FALSE)
    /\ UNCHANGED store

\* get_statistics()
GetStatistics ==
    /\ UNCHANGED <<files, threads>>
    /\ ret' = Result("get_statistics", <<>>,
                     [individuals |-> Len(individuals),
                      families |-> Len(families),
                      sources |-> Len(sources),
                      repositories |-> Len(repositories),
                      total_records |-> Len(records),
                      errors |-> Len(errors),
                      warnings |-> Len(warnings)], FALSE)
    /\ UNCHANGED <<store, errors, warnings, calls>>

\* get_person(gedcom_id): val is <<>> for None, <<person>> otherwise
GetPerson(gedcom_id) ==
    /\ UNCHANGED <<files, threads>>
    /\ LET r == IF gedcom_id \in Keys(individuals)
                THEN GetPersonOf(gedcom_id, heap[Get(individuals, gedcom_id)])
                ELSE [raised |-> FALSE, val |-> <<>>]
       IN  ret' = Result("get_person", gedcom_id, r.val, r.raised)
    /\ UNCHANGED <<store, errors, warnings, calls>>

\* records[key].get_value(*path)
GetValue(key, path) ==
    /\ key \in Keys(records)
    /\ ret' = Result("get_value", <<key, path>>,
                     get_value(heap[Get(records, key)], path), FALSE)
    /\ UNCHANGED <<store, errors, warnings, calls, files, threads>>

\* records[key].get_all_values(tag, parent_tag)
GetAllValues(key, tag, parent) ==
    /\ key \in Keys(records)
    /\ ret' = Result("get_all_values", <<key, tag, parent>>,
                     get_all_values(heap[Get(records, key)], tag, parent),
                     FALSE)
    /\ UNCHANGED <<store, errors, warnings, calls, files, threads>>

\* generate_name_variants(surname): it reads nothing of the manager, so it
\* is called on the new manager only
GenerateNameVariants(surname) ==
    /\ calls = <<>>
    /\ ret' = Result("generate_name_variants", surname,
                     VariantLists[surname], FALSE)
    /\ UNCHANGED <<store, errors, warnings, calls, files, threads>>

\* find_person_by_name(given, surname)
FindPerson(given, surname) ==
    /\ UNCHANGED <<files, threads>>
    /\ ret' = Result("find_person_by_name", <<given, surname>>,
                     FindPersonByName(individuals, heap, given, surname), FALSE)
    /\ UNCHANGED <<store, errors, warnings, calls>>

Next ==
    \/ \E path \in Paths : Load(path)
    \/ \E a \in SaveArgs, now \in Clock : Save(a[1], a[2], now)
    \/ GetNextIndividualId
    \/ GetNextFamilyId
    \/ GetNextSourceId
    \/ GetNextRepoId
    \/ \E person \in Persons : AddPerson(person)
    \/ \E a \in FamilyArgs : AddFamily(a)
    \/ \E source \in SourceArgs : AddSource(source)
    \/ Validate
    \/ GetStatistics
    \/ \E gedcom_id \in PersonIds : GetPerson(gedcom_id)
    \/ \E f \in NameFilters : FindPerson(f[1], f[2])
    \/ \E key \in ValueKeys, path \in ValuePaths : GetValue(key, path)
    \/ \E key \in AllValuesKeys, a \in AllValuesArgs :
          GetAllValues(key, a[1], a[2])
    \/ \E surname \in Surnames : GenerateNameVariants(surname)

Spec == Init /\ [][Next]_vars

(***************************************************************************)
(* validate() called by two threads on one manager.  A thread can be       *)
(* suspended between any two statements of validate(); the steps below     *)
(* are its statements, each of them run as a whole.                        *)
(***************************************************************************)
\* no thread has entered validate()
Quiet == \A t \in Threads : pc[t] = "idle"

\* self.errors = []; self.warnings = []
ValidateReset(t) ==
    /\ pc[t] = "idle"
    /\ errors' = <<>>
    /\ warnings' = <<>>
    /\ pc' = [pc EXCEPT ![t] = "ids"]
    /\ UNCHANGED <<store, ret, calls, files, out>>

\* self._validate_ids()
ValidateIdsStep(t) ==
    /\ pc[t] = "ids"
    /\ errors' = errors \o ValidateIds(records, heap)
    /\ pc' = [pc EXCEPT ![t] = "links"]
    /\ UNCHANGED <<store, warnings, ret, calls, files, out>>

\* self._validate_links()
ValidateLinksStep(t) ==
    /\ pc[t] = "links"
    /\ errors' = errors \o FamcErrors(individuals, families, heap)
                 \o FamsErrors(individuals, families, heap)
                 \o FamilyErrors(individuals, families, heap)
    /\ warnings' = warnings \o FamcWarnings(individuals, families, heap)
    /\ pc' = [pc EXCEPT ![t] = "dates"]
    /\ UNCHANGED <<store, ret, calls, files, out>>

\* self._validate_dates()
ValidateDatesStep(t) ==
    /\ pc[t] = "dates"
    /\ warnings' = warnings \o ValidateDates(records, heap)
    /\ pc' = [pc EXCEPT ![t] = "return"]
    /\ UNCHANGED <<store, errors, ret, calls, files, out>>

\* return self.errors + self.warnings
ValidateReturn(t) ==
    /\ pc[t] = "return"
    /\ out' = [out EXCEPT ![t] = errors \o warnings]
    /\ pc' = [pc EXCEPT ![t] = "done"]
    /\ UNCHANGED <<store, errors, warnings, ret, calls, files>>

\* the store is made by loads and add_family calls; once a thread is in
\* validate() no call changes the store
RaceNext ==
    \/ Quiet /\ \E path \in Paths : Load(path)
    \/ Quiet /\ \E a \in FamilyArgs : AddFamily(a)
    \/ \E t \in Threads : ValidateReset(t)
    \/ \E t \in Threads : ValidateIdsStep(t)
    \/ \E t \in Threads : ValidateLinksStep(t)
    \/ \E t \in Threads : ValidateDatesStep(t)
    \/ \E t \in Threads : ValidateReturn(t)

RaceSpec == Init /\ [][RaceNext]_vars

(***************************************************************************)
(* What the call log and the files say, for the statements below           *)
(***************************************************************************)
LastCall == calls[Len(calls)]

\* ret is the outcome of a query made on the state as it is now, or of the
\* last logged call
AllocOps == {"get_next_individual_id", "get_next_family_id",
             "get_next_source_id", "get_next_repo_id"}

TypedMappings == <<individuals, families, sources, repositories>>

\* the identifiers the calls of the log returned for one record type, in
\* the order of the calls: direct get_next_*_id calls and the calls the
\* mutators make
Issued(ops) ==
    LET picked == [i \in DOMAIN calls |->
                     IF calls[i].op \in ops
                        /\ ~(calls[i].op = "add_person"
                             /\ calls[i].arg.gedcom_id # "")
                     THEN <<calls[i].id>> ELSE <<>>]
    IN  Flatten(picked)

\* the identifiers of the level-0 lines "0 @X@ <tag>" of a file
FileIds(path, tag) ==
    {ParsedFiles[path][i].line.xref : i \in
        {j \in DOMAIN ParsedFiles[path] :
            /\ ParsedFiles[path][j].ok
            /\ ParsedFiles[path][j].line.level = 0
            /\ ParsedFiles[path][j].line.xref # ""
            /\ ParsedFiles[path][j].line.tag = tag}}

\* the identifiers that open two level-0 records of a file
FileDuplicateIds(path) ==
    {ParsedFiles[path][i].line.xref : i \in
        {j \in DOMAIN ParsedFiles[path] :
            /\ ParsedFiles[path][j].ok
            /\ ParsedFiles[path][j].line.level = 0
            /\ ParsedFiles[path][j].line.xref # ""
            /\ \E k \in 1..(j - 1) :
                  /\ ParsedFiles[path][k].ok
                  /\ ParsedFiles[path][k].line.level = 0
                  /\ ParsedFiles[path][k].line.xref
                        = ParsedFiles[path][j].line.xref}}

\* the family identifiers that a FAMS line of an individual record of the
\* file names and that no level-0 line of the file defines
FileOrphanFams(path) ==
    LET f == ParsedFiles[path]
        ok == {j \in DOMAIN f : f[j].ok}
    IN  {f[j].line.value : j \in
            {j \in ok :
                /\ f[j].line.level >= 1
                /\ f[j].line.tag = "FAMS"
                /\ \E i \in ok :
                      /\ i < j
                      /\ f[i].line.level = 0
                      /\ f[i].line.xref # ""
                      /\ f[i].line.tag = "INDI"
                      /\ \A k \in ok : (i < k /\ k < j) => f[k].line.level >= 1
                /\ \A k \in ok :
                      f[k].line.level = 0 => f[k].line.xref # f[j].line.value}}

SetMax(S) == CHOOSE m \in S : \A n \in S : n <= m

\* the numbers n of the identifiers @<letter><n>@ of a file's records of a type
FileIdNumbers(path, tag, letter) ==
    {IdNumber(x) : x \in {y \in FileIds(path, tag) : IdMatches(y, letter)}}

(***************************************************************************)
(* The claims                                                              *)
(***************************************************************************)
\* C1: in every reachable state every record of a typed mapping is the very
\* record (the same object) that records holds under the same key, and no
\* identifier is a key of more than one of the four typed mappings.
C1_TypedRecordsAreStoreRecords ==
    /\ \A t \in 1..4 : \A i \in DOMAIN TypedMappings[t] :
          /\ TypedMappings[t][i].k \in Keys(records)
          /\ Get(records, TypedMappings[t][i].k) = TypedMappings[t][i].v
    /\ \A t, u \in 1..4 :
          t # u => Keys(TypedMappings[t]) \cap Keys(TypedMappings[u]) = {}

\* C2: right after a successful load, every identifier that a level-0 line
\* "0 @X@ INDI" (FAM, SOUR, REPO) of the file carries is a key of individuals
\* (families, sources, repositories), and on a store that was fresh before
\* the load the size of each typed mapping is the number of such identifiers.
C2_LoadIndexesRecordsByType ==
    (calls # <<>> /\ LastCall.op = "load" /\ LastCall.arg \in DOMAIN FileSystem)
    => /\ FileIds(LastCall.arg, "INDI") \subseteq Keys(individuals)
       /\ FileIds(LastCall.arg, "FAM") \subseteq Keys(families)
       /\ FileIds(LastCall.arg, "SOUR") \subseteq Keys(sources)
       /\ FileIds(LastCall.arg, "REPO") \subseteq Keys(repositories)
       /\ Len(calls) = 1 =>
             /\ Len(individuals) = Cardinality(FileIds(LastCall.arg, "INDI"))
             /\ Len(families) = Cardinality(FileIds(LastCall.arg, "FAM"))

\* C3: right after a successful load into a fresh store, each counter is one
\* more than the greatest n among the file's identifiers @I<n>@ of INDI
\* records (@F<n>@ of FAM, @S<n>@ of SOUR, @R<n>@ of REPO records), so that
\* the next identifier issued is @I<max+1>@.
C3_CountersSeededFromFile ==
    (Len(calls) = 1 /\ LastCall.op = "load" /\ LastCall.arg \in DOMAIN FileSystem)
    => LET seeded(counter, tag, letter) ==
               FileIdNumbers(LastCall.arg, tag, letter) # {}
               => counter = SetMax(FileIdNumbers(LastCall.arg, tag, letter)) + 1
       IN  /\ seeded(next_indi_id, "INDI", "I")
           /\ seeded(next_fam_id, "FAM", "F")
           /\ seeded(next_sour_id, "SOUR", "S")
           /\ seeded(next_repo_id, "REPO", "R")

\* C4: the identifier a get_next_*_id call returns is not a key of records
\* when it is issued (the call leaves records as it was, so the state after
\* the call shows it).
C4_IssuedIdIsFresh ==
    (ret.op \in AllocOps) => ret.val \notin Keys(records)

C6_GetPersonExposesFamilyLinks ==
    (/\ ret.op = "get_person"
     /\ ~ret.raised
     /\ calls # <<>>
     /\ LastCall.op = "add_family"
     /\ LastCall.arg.husband_id \in Keys(individuals)
     /\ LastCall.arg.wife_id \in Keys(individuals)
     /\ LastCall.arg.children_ids # <<>>
     /\ \A c \in DOMAIN LastCall.arg.children_ids :
           LastCall.arg.children_ids[c] \in Keys(individuals))
    => /\ ret.arg \in {LastCall.arg.husband_id, LastCall.arg.wife_id}
          => /\ ret.val # <<>>
             /\ InSeq(LastCall.id, ret.val[1].spouse_family_ids)
       /\ InSeq(ret.arg, LastCall.arg.children_ids)
          => /\ ret.val # <<>>
             /\ InSeq(LastCall.id, ret.val[1].parent_family_ids)

\* C7: validate() returns, for every family of families and every value X of
\* a HUSB, WIFE or CHIL line of it that is no key of individuals, an error
\* whose message contains X and whose record identifier is the key of the
\* family.
C7_DanglingFamilyMembersReported ==
    (ret.op = "validate")
    => \A i \in DOMAIN families :
          LET fam == heap[families[i].v]
              refs == get_all_values(fam, "HUSB", "")
                      \o get_all_values(fam, "WIFE", "")
                      \o get_all_values(fam, "CHIL", "")
          IN  \A r \in DOMAIN refs :
                 refs[r] \notin Keys(individuals)
                 => \E e \in DOMAIN ret.val :
                       /\ ret.val[e].severity = "error"
                       /\ ret.val[e].record_id = families[i].k
                       /\ Contains(ret.val[e].message, refs[r])

\* add_family(husband=@I1@, children=[@I3@]) on a fresh store, then
\* validate(): an error of the new family mentions @I3@
C7_Witness ==
    /\ ret.op = "validate"
    /\ Len(calls) = 2
    /\ calls[1].op = "add_family"
    /\ calls[1].arg.husband_id = "@I1@"
    /\ calls[1].arg.children_ids = <<"@I3@">>
    /\ "@I3@" \notin Keys(individuals)
    /\ \E e \in DOMAIN ret.val :
          /\ ret.val[e].severity = "error"
          /\ ret.val[e].record_id = calls[1].id
          /\ Contains(ret.val[e].message, "@I3@")

\* C8: the validate() that follows the load of a file in which two level-0
\* records carry one identifier returns an error that reports the
\* identifier as a duplicate.
C8_DuplicateIdsReported ==
    (/\ ret.op = "validate"
     /\ Len(calls) >= 2
     /\ calls[Len(calls) - 1].op = "load"
     /\ calls[Len(calls) - 1].arg \in DOMAIN FileSystem)
    => \A x \in FileDuplicateIds(calls[Len(calls) - 1].arg) :
          \E e \in DOMAIN ret.val :
             /\ ret.val[e].severity = "error"
             /\ Contains(ret.val[e].message, "Duplicate")
             /\ Contains(ret.val[e].message, x)

\* C9: the validate() that follows the load of a file in which an individual
\* record has a FAMS line naming a family that no record of the file defines
\* returns an issue that mentions that family identifier.
C9_OrphanFamsReported ==
    (/\ ret.op = "validate"
     /\ Len(calls) >= 2
     /\ calls[Len(calls) - 1].op = "load"
     /\ calls[Len(calls) - 1].arg \in DOMAIN FileSystem)
    => \A f \in FileOrphanFams(calls[Len(calls) - 1].arg) :
          \E e \in DOMAIN ret.val : Contains(ret.val[e].message, f)

\* C10: no call other than load and save ends in a raised error.
C10_OnlyLoadAndSaveRaise ==
    ret.raised => ret.op \in {"load", "save"}

(***************************************************************************)
(* Saving and loading again                                                *)
(***************************************************************************)
\* the manager a new GedcomManager is after load("out.ged")
Reloaded == LoadInto(NewManager, ParsedLines("out.ged"))

\* the manager a new GedcomManager is after load(path) of a file that was
\* there from the start
FirstLoad(path) == LoadInto(NewManager, ParsedFiles[path])

Counts(m) ==
    [individuals |-> Len(m.individuals), families |-> Len(m.families),
     sources |-> Len(m.sources)]

ErrorsOf(m) ==
    {e \in {ValidateErrors(m.records, m.individuals, m.families, m.heap)[i] :
                i \in DOMAIN ValidateErrors(m.records, m.individuals,
                                            m.families, m.heap)} :
        e.severity = "error"}

\* the run is load(path) into the new manager, then a save to out.ged
LoadedThenSaved ==
    /\ Len(calls) = 2
    /\ calls[1].op = "load" /\ calls[1].arg \in DOMAIN FileSystem
    /\ calls[2].op = "save" /\ calls[2].arg[1] = "out.ged"

\* the run is add_person, add_family and add_source calls, then a save to
\* out.ged
BuiltThenSaved ==
    /\ Len(calls) >= 2
    /\ \A i \in 1..(Len(calls) - 1) :
          calls[i].op \in {"add_person", "add_family", "add_source"}
    /\ LastCall.op = "save" /\ LastCall.arg[1] = "out.ged"

C12_BuiltStoreReloadsWithSameCounts ==
    BuiltThenSaved => Counts(Reloaded) = Counts(Manager)

\* the lines save emits: those of the header and of every record of records
\* that is not the trailer
EmittedLines ==
    (IF header # 0 THEN heap[header].lines ELSE <<>>)
    \o Flatten([i \in DOMAIN records |->
            IF trailer # 0 /\ heap[records[i].v] = heap[trailer] THEN <<>> ELSE heap[records[i].v].lines])

\* C13: every line save emits, read by GedcomLine.parse from its to_string()
\* text, is a line with the same level, identifier, tag and value.
C13_EmittedLinesRetokenize ==
    \A i \in DOMAIN EmittedLines :
        GedcomLineParse(to_string(EmittedLines[i])) =
            [ok |-> TRUE, line |-> EmittedLines[i]]

\* the last call is a save that wrote out.ged
SavedLast ==
    /\ calls # <<>>
    /\ LastCall.op = "save" /\ LastCall.arg[1] = "out.ged"

\* the text of the lines of the records of records that are neither the
\* header object nor the trailer object, in the order of records
OtherRecordsText ==
    Flatten([i \in DOMAIN records |->
        IF records[i].v \in {header, trailer} THEN <<>>
        ELSE [j \in DOMAIN heap[records[i].v].lines |->
                to_string(heap[records[i].v].lines[j])]])

ProperTree(lines) ==
    /\ lines[1].level = 0
    /\ \A i \in 2..Len(lines) :
          lines[i].level >= 1 /\ lines[i].level <= lines[i - 1].level + 1

\* the ancestor of line i at level k (line i itself for its own level): the
\* last line at level k before which no line up to i is at level k or less
Ancestor(lines, i, k) ==
    CHOOSE j \in 1..i :
        lines[j].level = k /\ \A m \in (j + 1)..i : lines[m].level > k

\* line i is at the path: at level Len(path), each ancestor with its tag
AtPath(lines, i, path) ==
    /\ lines[i].level = Len(path)
    /\ \A k \in 1..Len(path) : lines[Ancestor(lines, i, k)].tag = path[k]

\* C15: on a record whose lines form a proper tree, get_value(p1, ..., pn)
\* returns the value of the first line at level n with tag pn whose
\* ancestors at the levels 1..n-1 carry the tags p1..pn-1, and None only
\* when the record has no such line.
C15_GetValueFindsFirstLineAtPath ==
    (ret.op = "get_value"
        /\ ProperTree(heap[Get(records, ret.arg[1])].lines)) =>
        LET lines == heap[Get(records, ret.arg[1])].lines
            at == {i \in 2..Len(lines) : AtPath(lines, i, ret.arg[2])}
        IN  ret.val = IF at = {} THEN <<>>
                      ELSE <<lines[CHOOSE i \in at :
                                    \A j \in at : i <= j].value>>

(***************************************************************************)
(* Concurrent callers                                                      *)
(***************************************************************************)
\* C16: validate() writes no state that its callers share, so each of two
\* validate() calls that run at the same time on a store no mutator is
\* changing returns the issue list a single validate() returns.
C16_ConcurrentValidateReturnsItsIssues ==
    \A t \in Threads :
        pc[t] = "done" =>
            out[t] = ValidateErrors(records, individuals, families, heap)
                     \o ValidateWarnings(records, individuals, families, heap)

(***************************************************************************)
(* Links that add_family did not patch                                     *)
(***************************************************************************)
\* the run is made of add_person, add_family, add_source and validate calls
\* on the new manager
BuiltInMemory ==
    \A i \in DOMAIN calls : calls[i].op \in MutationOps \cup {"validate"}

\* the links <<family, person, tag of the line the person should carry>>
\* that call k, an add_family, asked for
LinksAsked(k) ==
    (IF calls[k].arg.husband_id # ""
     THEN {<<calls[k].id, calls[k].arg.husband_id, "FAMS">>} ELSE {})
    \cup (IF calls[k].arg.wife_id # ""
          THEN {<<calls[k].id, calls[k].arg.wife_id, "FAMS">>} ELSE {})
    \cup {<<calls[k].id, calls[k].arg.children_ids[c], "FAMC">> :
            c \in DOMAIN calls[k].arg.children_ids}

\* the links an add_family call did not patch because no add_person call
\* before it had put the person into the store
SkippedLinks ==
    UNION {{l \in LinksAsked(k) :
                ~\E j \in 1..(k - 1) :
                    calls[j].op = "add_person" /\ calls[j].id = l[2]} :
           k \in {i \in DOMAIN calls : calls[i].op = "add_family"}}

\* the family record references the person and the person's record carries
\* no matching line
Inconsistent(l) ==
    /\ l[1] \in Keys(families)
    /\ LET fam == heap[Get(families, l[1])]
       IN  IF l[3] = "FAMS"
           THEN InSeq(l[2], get_all_values(fam, "HUSB", "")
                            \o get_all_values(fam, "WIFE", ""))
           ELSE InSeq(l[2], get_all_values(fam, "CHIL", ""))
    /\ \/ l[2] \notin Keys(individuals)
       \/ ~InSeq(l[1], get_all_values(heap[Get(individuals, l[2])],
                                      l[3], ""))

\* an issue of the last validate() is about the family and the person
Reported(l) ==
    \E i \in DOMAIN ret.val :
        \/ ret.val[i].record_id = l[1] /\ Contains(ret.val[i].message, l[2])
        \/ ret.val[i].record_id = l[2] /\ Contains(ret.val[i].message, l[1])

\* C17: a link that add_family did not patch because the person was not in
\* the store is reported by every later validate() for as long as the
\* family references the person and the person's record lacks the line,
\* whatever add_person, add_family and add_source calls came between.
C17_SkippedLinkIsReported ==
    (ret.op = "validate" /\ BuiltInMemory) =>
        \A l \in SkippedLinks : Inconsistent(l) => Reported(l)

(***************************************************************************)
(* FAMC references                                                         *)
(***************************************************************************)
\* the number of issues of the last validate() of one severity about the
\* FAMC reference of the individual indi_id to fam_ref
FamcIssues(severity, indi_id, fam_ref) ==
    Cardinality({i \in DOMAIN ret.val :
        /\ ret.val[i].severity = severity
        /\ ret.val[i].record_id = indi_id
        /\ Contains(ret.val[i].message, "FAMC")
        /\ Contains(ret.val[i].message, fam_ref)})

\* the FAMC lines of the record that name fam_ref
FamcLines(rec, fam_ref) ==
    {j \in DOMAIN rec.lines :
        j > 1 /\ rec.lines[j].tag = "FAMC" /\ rec.lines[j].value = fam_ref}

\* the family fam_ref lists indi_id as CHIL
ListsChild(fam_ref, indi_id) ==
    InSeq(indi_id, get_all_values(heap[Get(families, fam_ref)], "CHIL", ""))

\* C18: for every individual I of the individuals mapping and every FAMC
\* value F of its record, validate() reports one error with record
\* identifier I when F is no key of families, one warning and no error when
\* F is a family that does not list I as CHIL, and nothing when it does.
C18_FamcReferencesChecked ==
    ret.op = "validate" =>
        \A i \in DOMAIN individuals :
            LET rec == heap[individuals[i].v]
                I == individuals[i].k
            IN  \A j \in DOMAIN rec.lines :
                    (j > 1 /\ rec.lines[j].tag = "FAMC") =>
                        LET F == rec.lines[j].value
                            n == Cardinality(FamcLines(rec, F))
                        IN  IF F \notin Keys(families)
                            THEN /\ FamcIssues("error", I, F) = n
                                 /\ FamcIssues("warning", I, F) = 0
                            ELSE IF ~ListsChild(F, I)
                            THEN /\ FamcIssues("warning", I, F) = n
                                 /\ FamcIssues("error", I, F) = 0
                            ELSE /\ FamcIssues("warning", I, F) = 0
                                 /\ FamcIssues("error", I, F) = 0

\* validate() ran on a store with a FAMC reference of each kind: to no
\* family (an error), to a family that does not list the child (a warning),
\* to a family that does (nothing)
C18_Witness ==
    /\ ret.op = "validate"
    /\ {"@I2@", "@I3@", "@I9@"} \subseteq Keys(individuals)
    /\ "@F3@" \in Keys(families) /\ "@F8@" \notin Keys(families)
    /\ FamcLines(heap[Get(individuals, "@I3@")], "@F8@") # {}
    /\ FamcIssues("error", "@I3@", "@F8@") = 1
    /\ FamcLines(heap[Get(individuals, "@I2@")], "@F3@") # {}
    /\ ~ListsChild("@F3@", "@I2@")
    /\ FamcIssues("warning", "@I2@", "@F3@") = 1
    /\ FamcLines(heap[Get(individuals, "@I9@")], "@F3@") # {}
    /\ ListsChild("@F3@", "@I9@")
    /\ FamcIssues("warning", "@I9@", "@F3@") = 0

(***************************************************************************)
(* Surname variants                                                        *)
(***************************************************************************)
\* C19: the list generate_name_variants(s) returns contains s itself,
\* unchanged in case.
C19_VariantsContainTheInput ==
    ret.op = "generate_name_variants" => InSeq(ret.arg, ret.val)

\* C20: for a surname s that is not empty, the list
\* generate_name_variants(s) returns contains the title-cased s, is sorted
\* ascending and contains no string twice.
C20_VariantsTitledSortedDistinct ==
    (ret.op = "generate_name_variants" /\ ret.arg # "") =>
        /\ InSeq(Title(ret.arg), ret.val)
        /\ \A i, j \in DOMAIN ret.val :
              i < j => StrLess(ret.val[i], ret.val[j])

\* the variants of HERINCKX were generated: nine of them, the title-cased
\* surname and the one of the ck -> c substitution among them
C20_Witness ==
    /\ ret.op = "generate_name_variants"
    /\ ret.arg = "HERINCKX"
    /\ Len(ret.val) = 9
    /\ InSeq("Herinckx", ret.val)
    /\ InSeq("Herincx", ret.val)

(***************************************************************************)
(* Date values                                                             *)
(***************************************************************************)
\* the words of a text: its runs of characters other than whitespace
RECURSIVE Words(_)
Words(s) ==
    LET t == LStrip(s)
    IN  IF t = "" THEN <<>>
        ELSE <<Take(t, WordRun(t))>> \o Words(Drop(t, WordRun(t)))

\* the word is made of digits, lo to hi of them
IsNumber(w, lo, hi) == DigitRun(w) = Len(w) /\ Len(w) >= lo /\ Len(w) <= hi

\* the date grammar, read word by word: an optional modifier, an optional
\* day, an optional month name, an optional four-digit year, then nothing
\* more or the word AND and what follows it
DateGrammar(value) ==
    LET w0 == Words(value)
        w1 == IF w0 # <<>> /\ Upper(Head(w0)) \in DateModifiers
              THEN Tail(w0) ELSE w0
        w2 == IF w1 # <<>> /\ IsNumber(Head(w1), 1, 2) THEN Tail(w1) ELSE w1
        w3 == IF w2 # <<>> /\ \E m \in 1..12 : Upper(Head(w2)) = MonthNames[m]
              THEN Tail(w2) ELSE w2
        w4 == IF w3 # <<>> /\ IsNumber(Head(w3), 4, 4) THEN Tail(w3) ELSE w3
    IN  w4 = <<>> \/ (Len(w4) >= 2 /\ Upper(Head(w4)) = "AND")

\* the lines of the record with the tag DATE and the value
DateLines(rec, value) ==
    {j \in DOMAIN rec.lines :
        rec.lines[j].tag = "DATE" /\ rec.lines[j].value = value}

\* the issues of the last validate() of one severity that name the record
\* and are about the format of a date
DateIssues(severity, record_id) ==
    {i \in DOMAIN ret.val :
        /\ ret.val[i].severity = severity
        /\ ret.val[i].record_id = record_id
        /\ Contains(ret.val[i].message, "date format")}

FileHasHead(path) ==
    \E i \in DOMAIN ParsedFiles[path] :
        /\ ParsedFiles[path][i].ok
        /\ ParsedFiles[path][i].line.level = 0
        /\ ParsedFiles[path][i].line.tag = "HEAD"

\* C22: validate() on a new manager that has loaded a file with no HEAD
\* record returns at least one issue.
C22_MissingHeaderReported ==
    (/\ ret.op = "validate"
     /\ Len(calls) = 2
     /\ calls[1].op = "load"
     /\ calls[1].arg \in DOMAIN FileSystem
     /\ ~FileHasHead(calls[1].arg))
    => ret.val # <<>>

(***************************************************************************)
(* The shape of a record                                                   *)
(***************************************************************************)
\* the records the manager refers to: the values of records and of the four
\* typed mappings, the header and the trailer
StoreRecords ==
    {records[i].v : i \in DOMAIN records}
    \cup UNION {{TypedMappings[t][i].v : i \in DOMAIN TypedMappings[t]} :
                t \in 1..4}
    \cup ({header, trailer} \ {0})

\* C23: in every state reached by load, save and the mutators, every record
\* of the store has a first line of level 0, all its other lines have level
\* 1 or more, and its identifier is the identifier of its level-0 line.
C23_RecordShape ==
    \A o \in StoreRecords :
        /\ heap[o].lines # <<>>
        /\ heap[o].lines[1].level = 0
        /\ \A j \in 2..Len(heap[o].lines) : heap[o].lines[j].level >= 1
        /\ heap[o].id = heap[o].lines[1].xref

\* a file was loaded and add_family then appended its FAMS line to a record
\* the load had made
C23_Witness ==
    /\ Len(calls) = 2
    /\ calls[1].op = "load" /\ calls[1].arg = "valued.ged"
    /\ calls[2].op = "add_family" /\ calls[2].arg.husband_id = "@I1@"
    /\ LET lines == heap[Get(individuals, "@I1@")].lines
       IN  /\ Len(lines) = 3
           /\ lines[1] = GedcomLine(0, "INDI", "INDI", "@I1@")
           /\ lines[3] = GedcomLine(1, "FAMS", calls[2].id, "")

(***************************************************************************)
(* Lines are not edited                                                    *)
(***************************************************************************)
\* every record made so far is still there and the lines it held are the
\* first lines it holds now, each with its level, identifier, tag and value
LinesKept ==
    /\ Len(heap') >= Len(heap)
    /\ \A o \in DOMAIN heap :
          /\ Len(heap'[o].lines) >= Len(heap[o].lines)
          /\ \A j \in DOMAIN heap[o].lines :
                heap'[o].lines[j] = heap[o].lines[j]

\* C24: no operation changes the level, identifier, tag or value of a line
\* that a record already holds; records are added and lines are appended.
C24_HeldLinesNeverChange == [][LinesKept]_vars

(***************************************************************************)
(* Values under a parent                                                   *)
(***************************************************************************)
\* line i lies in the scope of a line with the tag: a line before it has
\* the tag and every line after that one, up to line i, is at a deeper
\* level than it
InScopeOf(lines, i, tag) ==
    \E p \in 2..(i - 1) :
        /\ lines[p].tag = tag
        /\ \A m \in (p + 1)..i : lines[m].level > lines[p].level

\* C25: get_all_values(tag, parent_tag=P) returns, in line order, the values
\* of the lines with the tag that lie in the scope of a line tagged P, a
\* scope ending at the next line whose level is that of the line or less;
\* with no parent_tag it returns the values of all lines after the level-0
\* line that carry the tag.
C25_AllValuesInParentScope ==
    ret.op = "get_all_values" =>
        LET lines == heap[Get(records, ret.arg[1])].lines
            tag == ret.arg[2]
            P == ret.arg[3]
        IN  ret.val =
                Flatten([i \in DOMAIN lines |->
                    IF /\ i >= 2
                       /\ lines[i].tag = tag
                       /\ (P = "" \/ InScopeOf(lines, i, P))
                    THEN <<lines[i].value>> ELSE <<>>])

(***************************************************************************)
(* The records of a parsed input                                           *)
(***************************************************************************)
\* line i of the parsed input opens a record
Opens(parsed, i) == parsed[i].ok /\ parsed[i].line.level = 0

\* the lines of the record that line i opens: the line, then the parseable
\* lines after it and before the next line that opens a record
Segment(parsed, i) ==
    <<parsed[i].line>>
    \o Flatten([j \in DOMAIN parsed |->
            IF /\ j > i
               /\ parsed[j].ok
               /\ \A m \in (i + 1)..j : ~Opens(parsed, m)
            THEN <<parsed[j].line>> ELSE <<>>])

\* the key of the record that line i opens: its identifier, or its tag when
\* it has none
OpeningKey(parsed, i) ==
    IF parsed[i].line.xref # "" THEN parsed[i].line.xref
    ELSE parsed[i].line.tag

\* the opening lines whose record is not replaced by a later record of the
\* input with the same key
Kept(parsed) ==
    {i \in DOMAIN parsed :
        /\ Opens(parsed, i)
        /\ \A m \in DOMAIN parsed :
              (m > i /\ Opens(parsed, m))
              => OpeningKey(parsed, m) # OpeningKey(parsed, i)}

\* the run is one load of a file into the new manager
LoadedOnce ==
    /\ Len(calls) = 1
    /\ calls[1].op = "load"
    /\ calls[1].arg \in DOMAIN FileSystem

\* C26: after the parse of an input every record of the store is an opening
\* level-0 line followed by the parseable lines up to the next level-0
\* line, in input order; lines before the first level-0 line are in no
\* record; blank and unparseable lines are dropped, they end no record and
\* record no issue; the record open at the end of the input is in the store.
C26_RecordsAreSegments ==
    LoadedOnce =>
        LET parsed == ParsedFiles[calls[1].arg]
        IN  /\ \A r \in DOMAIN records :
                  \E i \in Kept(parsed) :
                      /\ records[r].k = OpeningKey(parsed, i)
                      /\ heap[records[r].v].lines = Segment(parsed, i)
            /\ \A i \in Kept(parsed) :
                  /\ OpeningKey(parsed, i) \in Keys(records)
                  /\ heap[Get(records, OpeningKey(parsed, i))].lines
                        = Segment(parsed, i)
            /\ errors = <<>> /\ warnings = <<>>

\* the file with a line before its first record and with a blank and an
\* unparseable line inside records was loaded: the records go on after the
\* dropped lines and the trailer, open at the end, is stored
C26_Witness ==
    /\ LoadedOnce
    /\ calls[1].arg = "valued.ged"
    /\ ~ParsedFiles["valued.ged"][3].ok
    /\ ~ParsedFiles["valued.ged"][8].ok
    /\ heap[Get(records, "@I1@")].lines =
          <<GedcomLine(0, "INDI", "INDI", "@I1@"),
            GedcomLine(1, "NAME", "Jan /Smet/", "")>>
    /\ heap[Get(records, "@I3@")].lines =
          <<GedcomLine(0, "INDI", "INDI", "@I3@"),
            GedcomLine(1, "FAMC", "@F8@", "")>>
    /\ "TRLR" \in Keys(records)
    /\ \A r \in DOMAIN records :
          \A j \in DOMAIN heap[records[r].v].lines :
              heap[records[r].v].lines[j].value # "stray"

(***************************************************************************)
(* add_family and the records of the persons it names                      *)
(***************************************************************************)
\* the identifiers an add_family call names as spouses
Spouses(a) ==
    (IF a.husband_id # "" THEN <<a.husband_id>> ELSE <<>>)
    \o (IF a.wife_id # "" THEN <<a.wife_id>> ELSE <<>>)

\* the identifiers an add_family call names, none of them twice
Distinct(ids) == \A i, j \in DOMAIN ids : i # j => ids[i] # ids[j]

\* the step is an add_family call
IsAddFamily == calls' # calls /\ calls'[Len(calls')].op = "add_family"

\* an issue involves the family: it names it as its record or in its message
Involves(issue, fam_id) ==
    issue.record_id = fam_id \/ Contains(issue.message, fam_id)

\* the add_family step with every named person in individuals: one FAMS
\* line for each spouse, one FAMC line for each child, no other change to a
\* record made before
LinksPatched ==
    LET a == calls'[Len(calls')].arg
        fam_id == calls'[Len(calls')].id
        named == Spouses(a) \o a.children_ids
    IN  (/\ IsAddFamily
         /\ Distinct(named)
         /\ \A n \in DOMAIN named : named[n] \in Keys(individuals))
        => \A o \in DOMAIN heap :
              heap'[o] =
                 IF \E n \in DOMAIN Spouses(a) :
                        o = Get(individuals, Spouses(a)[n])
                 THEN [heap[o] EXCEPT !.lines =
                          Append(@, GedcomLine(1, "FAMS", fam_id, ""))]
                 ELSE IF \E c \in DOMAIN a.children_ids :
                             o = Get(individuals, a.children_ids[c])
                 THEN [heap[o] EXCEPT !.lines =
                          Append(@, GedcomLine(1, "FAMC", fam_id, ""))]
                 ELSE heap[o]

\* in the state such an add_family call has left (the call leaves the keys
\* of individuals as they were), what validate() returns has no issue that
\* involves the new family
NoIssueAboutNewFamily ==
    (/\ calls # <<>>
     /\ LastCall.op = "add_family"
     /\ Distinct(Spouses(LastCall.arg) \o LastCall.arg.children_ids)
     /\ \A n \in DOMAIN (Spouses(LastCall.arg) \o LastCall.arg.children_ids) :
           (Spouses(LastCall.arg) \o LastCall.arg.children_ids)[n]
              \in Keys(individuals))
    => LET issues == ValidateErrors(records, individuals, families, heap)
                     \o ValidateWarnings(records, individuals, families, heap)
       IN  \A i \in DOMAIN issues : ~Involves(issues[i], LastCall.id)

HoldsLine(rec, tag, value) ==
    \E j \in DOMAIN rec.lines :
        j > 1 /\ rec.lines[j] = GedcomLine(1, tag, value, "")

\* the add_family step that names a person individuals does not hold: the
\* call returns the new identifier, the family record is stored with a line
\* for every person it names, and the only records made before that change
\* are those of the named persons individuals holds
MissingSkipped ==
    LET a == calls'[Len(calls')].arg
        fam_id == calls'[Len(calls')].id
        named == Spouses(a) \o a.children_ids
        present == {Get(individuals, named[n]) :
                        n \in {m \in DOMAIN named : named[m] \in Keys(individuals)}}
    IN  (/\ IsAddFamily
         /\ \E n \in DOMAIN named : named[n] \notin Keys(individuals))
        => /\ ~ret'.raised
           /\ ret'.op = "add_family" /\ ret'.val = fam_id
           /\ fam_id = FormatId("F", next_fam_id)
           /\ fam_id \in Keys(families') /\ fam_id \in Keys(records')
           /\ Get(families', fam_id) = Get(records', fam_id)
           /\ Get(records', fam_id) \notin DOMAIN heap
           /\ LET fam == heap'[Get(records', fam_id)]
              IN  /\ fam.id = fam_id /\ fam.tag = "FAM"
                  /\ a.husband_id # "" => HoldsLine(fam, "HUSB", a.husband_id)
                  /\ a.wife_id # "" => HoldsLine(fam, "WIFE", a.wife_id)
                  /\ \A c \in DOMAIN a.children_ids :
                        HoldsLine(fam, "CHIL", a.children_ids[c])
           /\ \A o \in DOMAIN heap : o \notin present => heap'[o] = heap[o]
           /\ Keys(individuals') = Keys(individuals)

\* C28: add_family with a husband, wife or child identifier that is no key
\* of individuals raises no error, creates the family record with the HUSB,
\* WIFE or CHIL line for that identifier, stores it in families and records,
\* returns the new family identifier, and changes no existing record for the
\* missing person.
C28_MissingPersonIsSkipped == [][MissingSkipped]_vars

\* add_person with the identifier @I1@, then add_family(husband @I1@,
\* children [@I3@]): the family holds both lines, the record of @I1@ got
\* its FAMS line and no record holds a FAMC line
C28_Witness ==
    /\ Len(calls) = 2
    /\ calls[1].op = "add_person" /\ calls[1].id = "@I1@"
    /\ calls[2].op = "add_family"
    /\ calls[2].arg.husband_id = "@I1@" /\ calls[2].arg.wife_id = ""
    /\ calls[2].arg.children_ids = <<"@I3@">>
    /\ "@I3@" \notin Keys(individuals)
    /\ HoldsLine(heap[Get(families, calls[2].id)], "HUSB", "@I1@")
    /\ HoldsLine(heap[Get(families, calls[2].id)], "CHIL", "@I3@")
    /\ HoldsLine(heap[Get(individuals, "@I1@")], "FAMS", calls[2].id)
    /\ \A o \in DOMAIN heap : ~HoldsLine(heap[o], "FAMC", calls[2].id)

(***************************************************************************)
(* A load that cannot open its file                                        *)
(***************************************************************************)
\* the step is a load of a path that names no file
IsFailingLoad ==
    /\ calls' # calls
    /\ calls'[Len(calls')].op = "load"
    /\ calls'[Len(calls')].arg \notin DOMAIN FileSystem \cup Keys(files)

\* such a load raises and leaves the mappings, the header and trailer
\* references and the counters as they were
FailingLoadKeepsStore ==
    IsFailingLoad =>
        /\ ret'.op = "load" /\ ret'.raised
        /\ UNCHANGED <<records, individuals, families, sources, repositories,
                       header, trailer, next_indi_id, next_fam_id,
                       next_sour_id, next_repo_id>>
        /\ \A o \in DOMAIN heap : heap'[o] = heap[o]

\* C29: load of a path that cannot be opened raises an error to the caller
\* and leaves the records mapping, the four typed mappings, the header and
\* trailer references and the four identifier counters as they were.
C29_FailingLoadKeepsStore == [][FailingLoadKeepsStore]_vars

\* a file was loaded, then load("out.ged") raised, no save having written
\* that file; the store still holds what the first load put there
C29_Witness ==
    /\ Len(calls) = 2
    /\ calls[1].op = "load" /\ calls[1].arg = "valued.ged"
    /\ calls[2].op = "load" /\ calls[2].arg = "out.ged"
    /\ ret.op = "load" /\ ret.raised
    /\ Len(records) = 8
    /\ Len(individuals) = 4
    /\ next_indi_id = 10
    /\ trailer # 0

(***************************************************************************)
(* validate() run again, and the counts of get_statistics()                *)
(***************************************************************************)
\* the step is a validate() call
IsValidate == calls' # calls /\ calls'[Len(calls')].op = "validate"

\* the number of issues of the list with the severity
CountOf(issues, severity) ==
    Cardinality({i \in DOMAIN issues : issues[i].severity = severity})

\* no warning of the list stands before an error
ErrorsFirst(issues) ==
    \A i, j \in DOMAIN issues :
        i < j => ~(issues[i].severity = "warning"
                   /\ issues[j].severity = "error")

\* validate() changes the stored lists only and returns them, the errors
\* first; run right after a validate() it returns the list that one
\* returned.  No other call touches the stored lists, and get_statistics()
\* counts the issues of each severity in them.
ValidateRepeats ==
    /\ IsValidate =>
          /\ UNCHANGED <<store, files>>
          /\ ret'.val = errors' \o warnings'
          /\ ErrorsFirst(ret'.val)
          /\ (calls # <<>> /\ LastCall.op = "validate")
             => ret'.val = errors \o warnings
    /\ ~IsValidate => UNCHANGED <<errors, warnings>>
    /\ ret'.op = "get_statistics" =>
          /\ ret'.val.errors = CountOf(errors' \o warnings', "error")
          /\ ret'.val.warnings = CountOf(errors' \o warnings', "warning")

\* C30: validate() discards the issues of an earlier run and changes only
\* the stored error and warning lists: two validate() calls in a row return
\* equal lists, errors before warnings, and the errors and warnings counts
\* of get_statistics() are those of the list the last validate() returned,
\* 0 and 0 before the first one.
C30_ValidateIsRepeatable ==
    /\ errors = <<>> /\ warnings = <<>>
    /\ [][ValidateRepeats]_vars

\* a file was loaded and validate() called twice; get_statistics() then
\* counts the two errors and two warnings of the list
C30_Witness ==
    /\ Len(calls) = 3
    /\ calls[1].op = "load" /\ calls[1].arg = "valued.ged"
    /\ calls[2].op = "validate" /\ calls[3].op = "validate"
    /\ ret.op = "get_statistics"
    /\ ret.val.errors = 2 /\ ret.val.warnings = 2
    /\ Len(errors) = 2 /\ Len(warnings) = 2
====
